---- MODULE Spec2Model ----
(***************************************************************************)
(* A model of the Junos plugin of the Net-API framework: the Netconf       *)
(* session wrapper (netconf.py), the extractor classes built on it         *)
(* (device.py, hardware.py, interfaces.py, lldp.py, vlans.py, mac.py,      *)
(* routing.py, ospf.py) and the XML-RPC dispatcher functions (junos.py).   *)
(*                                                                         *)
(* Python values are tagged records, so that the code's type tests         *)
(* (type(x) is list, x is None) and its failures (KeyError, TypeError)     *)
(* can be computed.  A str is a TLA+ string; a dict is the sequence of     *)
(* its <<key, value>> pairs in insertion order; an exception raised by an  *)
(* expression is the value Exc(kind), which every operator passes on.      *)
(***************************************************************************)
EXTENDS Integers, Sequences, FiniteSets, TLC

VARIABLES
    pc,          \* where the XML-RPC server is in serving one request
    req,         \* the dispatcher function being served, "none" when idle
    dev,         \* Netconf.dev of the request's session: none, open, closed
    me,          \* the attributes of the extractor object (self.<name>)
    blk,         \* how the 'with' block of __enter__ was left
    my_device,   \* what the dispatcher's 'with ... as my_device' bound
    idx,         \* the next extractor call of the dispatcher's body
    info,        \* the dispatcher's info dictionary
    ran,         \* the extractor methods the dispatcher has called so far
    result,      \* what the dispatcher gave its caller
    log,         \* every fetch handed to the transport, in order
    kwargs,      \* the filter argument of a direct get_config call
    fetched,     \* what that get_config call returned
    dev_facts    \* connection.dev.facts of the session, once the block read it

vars == <<pc, req, dev, me, blk, my_device, idx, info, ran, result, log,
          kwargs, fetched, dev_facts>>

----------------------------------------------------------------------------
(* Bounds of the model, and the names its payloads are made of *)

\* the most a repeatable element occurs in a reply
MaxEntries == 2

MacAddress == <<"00:00:5e:00:53:01", "00:00:5e:00:53:02", "00:00:5e:00:53:03">>
VlanName == <<"users", "voice", "mgmt">>
PortName == <<"ge-0/0/1.0", "ge-0/0/2.0", "ae0.0">>

----------------------------------------------------------------------------
(* Python values *)

PyNone == [t |-> "none"]
PyStr(s) == [t |-> "str", v |-> s]
PyInt(n) == [t |-> "int", v |-> n]
PyBool(b) == [t |-> "bool", v |-> b]
PyList(s) == [t |-> "list", v |-> s]
PyDict(pairs) == [t |-> "dict", v |-> pairs]
Exc(kind) == [t |-> "exc", v |-> kind]

IsExc(x) == x.t = "exc"
IsNone(x) == x.t = "none"
IsList(x) == x.t = "list"
IsDict(x) == x.t = "dict"

\* a loop pass ended by 'continue': it adds nothing to the list being built
Skip == [t |-> "skip"]

HasKey(d, k) == \E i \in 1..Len(d.v) : d.v[i][1] = k
Lookup(d, k) == d.v[CHOOSE i \in 1..Len(d.v) : d.v[i][1] = k][2]
Keys(d) == [i \in 1..Len(d.v) |-> d.v[i][1]]

\* the first exception among the values of a sequence, in order
FirstExc(vals) ==
    vals[CHOOSE i \in 1..Len(vals) :
            IsExc(vals[i]) /\ \A j \in 1..(i - 1) : ~IsExc(vals[j])]
AnyExc(vals) == \E i \in 1..Len(vals) : IsExc(vals[i])

----------------------------------------------------------------------------
(* str methods, on TLA+ strings *)

\* sub in s, for two str
Contains(sub, s) ==
    \E i \in 1..(Len(s) - Len(sub) + 1) : SubSeq(s, i, i + Len(sub) - 1) = sub

\* the first position at which sep occurs in s (sep occurs in s)
Find(sep, s) ==
    CHOOSE i \in 1..(Len(s) - Len(sep) + 1) :
        /\ SubSeq(s, i, i + Len(sep) - 1) = sep
        /\ \A j \in 1..(i - 1) : SubSeq(s, j, j + Len(sep) - 1) # sep

RECURSIVE Split(_, _)
\* s.split(sep): the pieces of s between the occurrences of sep
Split(s, sep) ==
    IF ~Contains(sep, s) THEN <<s>>
    ELSE LET i == Find(sep, s)
         IN  <<SubSeq(s, 1, i - 1)>> \o Split(SubSeq(s, i + Len(sep), Len(s)), sep)

RECURSIVE RStrip(_, _)
\* s.rstrip(ch): s without its trailing run of the character ch
RStrip(s, ch) ==
    IF Len(s) > 0 /\ SubSeq(s, Len(s), Len(s)) = ch
    THEN RStrip(SubSeq(s, 1, Len(s) - 1), ch)
    ELSE s

\* seq[:]
Unreversed(seq) == seq

RECURSIVE Reversed(_)
\* seq[::-1]
Reversed(seq) ==
    IF seq = <<>> THEN <<>> ELSE Reversed(Tail(seq)) \o <<Head(seq)>>

\* the value of a string of decimal digits
Digits == "0123456789"
IsDigits(s) == Len(s) > 0 /\ \A i \in 1..Len(s) : Contains(SubSeq(s, i, i), Digits)
DigitValue(c) == CHOOSE d \in 0..9 : SubSeq(Digits, d + 1, d + 1) = c
RECURSIVE NatOf(_)
NatOf(s) ==
    IF Len(s) = 0 THEN 0
    ELSE NatOf(SubSeq(s, 1, Len(s) - 1)) * 10 + DigitValue(SubSeq(s, Len(s), Len(s)))

\* s.split(): the pieces of s between runs of blanks
SplitBlanks(s) == SelectSeq(Split(s, " "), LAMBDA piece : Len(piece) > 0)

----------------------------------------------------------------------------
(* Python expressions over these values *)

PyFloat(s) == [t |-> "float", v |-> s]

\* int(x): of an int, or of a str of decimal digits with an optional sign
ToInt(x) ==
    IF IsExc(x) THEN x
    ELSE IF x.t = "int" THEN x
    ELSE IF x.t = "str"
    THEN IF IsDigits(x.v) THEN PyInt(NatOf(x.v))
         ELSE IF Len(x.v) > 1 /\ SubSeq(x.v, 1, 1) = "-" /\ IsDigits(Tail(x.v))
         THEN PyInt(0 - NatOf(Tail(x.v)))
         ELSE Exc("ValueError")
    ELSE Exc("TypeError")

\* float(x) of a str: a decimal numeral; the value is kept as its repr
ToFloat(x) ==
    IF IsExc(x) THEN x
    ELSE IF x.t = "str"
    THEN LET parts == Split(x.v, ".")
             fraction == IF Len(parts) = 2 THEN RStrip(parts[2], "0") ELSE ""
         IN  IF Len(parts) <= 2 /\ \A i \in 1..Len(parts) : IsDigits(parts[i])
             THEN PyFloat(ToString(NatOf(parts[1])) \o "."
                          \o (IF fraction = "" THEN "0" ELSE fraction))
             ELSE Exc("ValueError")
    ELSE Exc("TypeError")

\* x.split()[0]
FirstWord(x) ==
    IF IsExc(x) THEN x
    ELSE IF x.t # "str" THEN Exc("AttributeError")
    ELSE IF SplitBlanks(x.v) = <<>> THEN Exc("IndexError")
    ELSE PyStr(SplitBlanks(x.v)[1])

\* x[k] for a str k: a dict gives the value or KeyError; None, a str and a
\* list cannot be indexed by a str
GetItem(x, k) ==
    IF IsExc(x) THEN x
    ELSE IF IsDict(x) THEN (IF HasKey(x, k) THEN Lookup(x, k) ELSE Exc("KeyError"))
    ELSE Exc("TypeError")

RECURSIVE Path(_, _)
\* x[k1][k2]...[kn]
Path(x, ks) == IF ks = <<>> THEN x ELSE Path(GetItem(x, Head(ks)), Tail(ks))

\* k in x for a str k: key of a dict, substring of a str, element of a list
In(k, x) ==
    IF IsExc(x) THEN x
    ELSE IF IsDict(x) THEN PyBool(HasKey(x, k))
    ELSE IF x.t = "str" THEN PyBool(Contains(k, x.v))
    ELSE IF IsList(x) THEN PyBool(\E i \in 1..Len(x.v) : x.v[i] = PyStr(k))
    ELSE Exc("TypeError")

\* what 'for item in x' goes through, as a list: the elements of a list, the
\* keys of a dict, the characters of a str
Iter(x) ==
    IF IsExc(x) THEN x
    ELSE IF IsList(x) THEN x
    ELSE IF IsDict(x) THEN PyList([i \in 1..Len(x.v) |-> PyStr(x.v[i][1])])
    ELSE IF x.t = "str" THEN PyList([i \in 1..Len(x.v) |-> PyStr(SubSeq(x.v, i, i))])
    ELSE Exc("TypeError")

\* if type(x) is not list: x = [x]
AsList(x) == IF IsExc(x) \/ IsList(x) THEN x ELSE PyList(<<x>>)

\* a dict built by assignments entry[k] = e in order: the first expression
\* that raises ends the construction
Entry(pairs) ==
    LET vals == [i \in 1..Len(pairs) |-> pairs[i][2]]
    IN  IF AnyExc(vals) THEN FirstExc(vals) ELSE PyDict(pairs)

\* the list a loop appends to, one result per pass: a pass that raises ends
\* the loop, a pass that continues appends nothing
Collect(results) ==
    IF AnyExc(results) THEN FirstExc(results)
    ELSE PyList(SelectSeq(results, LAMBDA r : r # Skip))

\* the lists of the passes of an outer loop whose inner loop appends
RECURSIVE Concat(_)
Concat(lists) ==
    IF lists = <<>> THEN <<>> ELSE Head(lists).v \o Concat(Tail(lists))
Flatten(results) ==
    IF AnyExc(results) THEN FirstExc(results) ELSE PyList(Concat(results))

\* if k in x: e = x[k]  else: e = default
GetOr(x, k, default) ==
    LET c == In(k, x)
    IN  IF IsExc(c) THEN c ELSE IF c.v THEN GetItem(x, k) ELSE default

\* for item in x: <pass>, each pass giving one result
ForEach(x, Pass(_)) ==
    LET items == Iter(x)
    IN  IF IsExc(items) THEN items
        ELSE Collect([i \in 1..Len(items.v) |-> Pass(items.v[i])])

\* self.<name>
Attr(self, name) ==
    IF name \in DOMAIN self THEN self[name] ELSE Exc("AttributeError")

RECURSIVE Update(_, _)
\* d.update(e): the pairs of e replace or extend those of d
Update(d, e) ==
    IF e.v = <<>> THEN d
    ELSE LET k == Head(e.v)[1]
             put == IF HasKey(d, k)
                    THEN PyDict([i \in 1..Len(d.v) |->
                                   IF d.v[i][1] = k THEN Head(e.v) ELSE d.v[i]])
                    ELSE PyDict(Append(d.v, Head(e.v)))
         IN  Update(put, PyDict(Tail(e.v)))

\* xmltodict.parse of an element that occurs n times under its parent: no
\* key for none, the map itself for one, a list of the maps for several
Repeated(key, items) ==
    IF items = <<>> THEN <<>>
    ELSE IF Len(items) = 1 THEN << <<key, items[1]>> >>
    ELSE << <<key, PyList(items)>> >>

----------------------------------------------------------------------------
(* Netconf.get_config: the filter expression *)

RECURSIVE OpenTags(_, _)
\* for item in new_entry: filter += f'<{item}>'
OpenTags(filter, items) ==
    IF items = <<>> THEN filter
    ELSE OpenTags(filter \o "<" \o Head(items) \o ">", Tail(items))

RECURSIVE CloseTags(_, _)
\* for item in reversed[1:]: filter += f'</{item}>'
CloseTags(filter, items) ==
    IF items = <<>> THEN filter
    ELSE CloseTags(filter \o "</" \o Head(items) \o ">", Tail(items))

\* one pass of the loop over kwargs['filter']
AddParameter(filter, parameter) ==
    IF Contains("/", parameter)
    THEN LET new_entry == Split(parameter, "/")
             reversed == Reversed(new_entry)
             opened == OpenTags(filter, new_entry)
             leaf == RStrip(opened, ">") \o "/>"
         IN  CloseTags(leaf, Tail(reversed))
    ELSE filter \o "<" \o parameter \o "/>"

RECURSIVE AddParameters(_, _)
AddParameters(filter, parameters) ==
    IF parameters = <<>> THEN filter
    ELSE AddParameters(AddParameter(filter, Head(parameters)), Tail(parameters))

\* the filter get_config hands to dev.rpc.get_config(filter_xml=...)
BuildFilter(parameters) ==
    AddParameters("<configuration>", parameters) \o "</configuration>"

----------------------------------------------------------------------------
(* netconf.py: the session and its two fetch operations.  What the device  *)
(* answers is the environment's choice: a decoded payload, or Exc(...)     *)
(* when the call raises inside PyEZ.                                       *)

\* Netconf.__enter__: the handle when JunosDevice(...).open() succeeded,
\* None when it raised
Netconf_enter(opened) == IF opened THEN "open" ELSE "none"

\* Netconf.__exit__ that leaves the handle as it is
Netconf_exit_keepopen(d, raised) == d

\* Netconf.__exit__: with an exception in flight the handler reports it and
\* returns False; only otherwise is an open handle closed
Netconf_exit(d, raised) ==
    IF raised THEN d
    ELSE IF d = "open" THEN "closed" ELSE d

\* rpc_commands: None without a connection, the decoded reply, or the error
\* dictionary when the call raised
rpc_commands(d, answer) ==
    IF d = "none" THEN PyNone
    ELSE IF IsExc(answer)
         THEN PyDict(<< <<"status", PyStr("error")>>, <<"error", answer>> >>)
         ELSE answer

\* get_config(filter=parameters): None without a connection or when the
\* fetch raised, the decoded configuration otherwise
get_config(d, answer) ==
    IF d = "none" THEN PyNone
    ELSE IF IsExc(answer) THEN PyNone
         ELSE answer

\* the entries the log gets for the fetches made on the handle d
RpcCall(d, name) == IF d = "none" THEN <<>> ELSE << [op |-> "rpc", arg |-> name] >>
ConfigCall(d, parameters) ==
    IF d = "none" THEN <<>>
    ELSE << [op |-> "get_config", arg |-> BuildFilter(parameters)] >>

\* the reply when the device rejects a call
RpcError == Exc("RpcError")

----------------------------------------------------------------------------
(* mac.py *)

\* one entry of the MAC address table, in the current and the legacy schema
MacEntryCurrent(n) ==
    PyDict(<< <<"l2ng-l2-mac-address", PyStr(MacAddress[n])>>,
              <<"l2ng-l2-mac-vlan-name", PyStr(VlanName[n])>>,
              <<"l2ng-l2-mac-logical-interface", PyStr(PortName[n])>> >>)
MacEntryLegacy(n) ==
    PyDict(<< <<"mac-address", PyStr(MacAddress[n])>>,
              <<"mac-vlan", PyStr(VlanName[n])>>,
              <<"mac-interfaces-list",
                PyDict(<< <<"mac-interfaces", PyStr(PortName[n])>> >>)>> >>)

\* the replies to get-ethernet-switching-table-information with n entries
MacTableCurrent(n) ==
    PyDict(<< <<"l2ng-l2ald-rtb-macdb",
                PyDict(<< <<"l2ng-l2ald-mac-entry-vlan",
                            PyDict(Repeated("l2ng-mac-entry",
                                [i \in 1..n |-> MacEntryCurrent(i)]))>> >>)>> >>)
MacTableLegacy(n) ==
    PyDict(<< <<"ethernet-switching-table-information",
                PyDict(<< <<"ethernet-switching-table",
                            PyDict(Repeated("mac-table-entry",
                                [i \in 1..n |-> MacEntryLegacy(i)]))>> >>)>> >>)
\* a router: the element is there and empty
MacTableNone == PyDict(<< <<"l2ng-l2ald-rtb-macdb", PyNone>> >>)
\* a reply in neither schema
MacTableOther == PyDict(<< <<"l2ald-rtb-macdb", PyNone>> >>)

MacReplies ==
    {MacTableCurrent(n) : n \in 1..MaxEntries}
    \cup {MacTableLegacy(n) : n \in 1..MaxEntries}
    \cup {MacTableNone, MacTableOther, RpcError}

\* the body of the 'with' block of Mac.__enter__
Mac_enter(self, d, answer) ==
    IF d = "none" THEN [me |-> self, log |-> <<>>, out |-> "return"]
    ELSE [me |-> [self EXCEPT !["mac_table"] = rpc_commands(d, answer)],
          log |-> RpcCall(d, "get-ethernet-switching-table-information"),
          out |-> "normal"]

\* one pass of the loops of Mac.mac
MacRecordCurrent(address) ==
    Entry(<< <<"mac", GetItem(address, "l2ng-l2-mac-address")>>,
             <<"vlan", GetItem(address, "l2ng-l2-mac-vlan-name")>>,
             <<"interface", GetItem(address, "l2ng-l2-mac-logical-interface")>> >>)
\* MacRecordLegacy with the interface list element as it is in the reply
MacRecordLegacy_nested(address) ==
    Entry(<< <<"mac", GetItem(address, "mac-address")>>,
             <<"vlan", GetItem(address, "mac-vlan")>>,
             <<"interface", GetItem(address, "mac-interfaces-list")>> >>)
MacRecordLegacy(address) ==
    Entry(<< <<"mac", GetItem(address, "mac-address")>>,
             <<"vlan", GetItem(address, "mac-vlan")>>,
             <<"interface",
               Path(address, <<"mac-interfaces-list", "mac-interfaces">>)>> >>)

\* Mac.mac
Mac_mac(self) ==
    LET table == Attr(self, "mac_table")
        current == In("l2ng-l2ald-rtb-macdb", table)
        legacy == In("ethernet-switching-table-information", table)
        entries ==
            IF IsExc(current) THEN current
            ELSE IF current.v
            THEN IF ~IsNone(GetItem(table, "l2ng-l2ald-rtb-macdb"))
                 THEN ForEach(Path(table, <<"l2ng-l2ald-rtb-macdb",
                                            "l2ng-l2ald-mac-entry-vlan",
                                            "l2ng-mac-entry">>), MacRecordCurrent)
                 ELSE PyList(<<>>)
            ELSE IF legacy.v
            THEN ForEach(Path(table, <<"ethernet-switching-table-information",
                                       "ethernet-switching-table",
                                       "mac-table-entry">>), MacRecordLegacy)
            ELSE PyList(<<>>)
    IN  Entry(<< <<"entry", entries>> >>)

----------------------------------------------------------------------------
(* routing.py *)

\* one nh element: a gateway and an interface, either of which may be
\* missing; a local route names its own interface instead
NextHop(to, via) ==
    IF to = "" /\ via = ""
    THEN PyDict(<< <<"nh-local-interface", PyStr("ge-0/0/2.0")>> >>)
    ELSE PyDict((IF to = "" THEN <<>> ELSE << <<"to", PyStr(to)>> >>)
                \o (IF via = "" THEN <<>> ELSE << <<"via", PyStr(via)>> >>))

\* one rt-entry: its protocol, its raw metric ("" for none) and next hops
RtEntry(protocol, metric, hops) ==
    PyDict(<< <<"protocol-name", PyStr(protocol)>> >>
           \o (IF metric = "" THEN <<>> ELSE << <<"metric", PyStr(metric)>> >>)
           \o Repeated("nh", hops))

Rt(destination, entries) ==
    PyDict(<< <<"rt-destination", PyStr(destination)>> >>
           \o Repeated("rt-entry", entries))

\* the routes the replies are made of
Routes == <<
    Rt("10.0.0.0/24", << RtEntry("Direct", "", <<NextHop("", "ge-0/0/0.0")>>) >>),
    Rt("0.0.0.0/0", << RtEntry("Static", "", <<NextHop("10.0.0.1", "ge-0/0/0.0")>>) >>),
    Rt("10.1.0.0/16", << RtEntry("Static", "50", <<NextHop("10.0.0.2", "ge-0/0/0.0"),
                                                   NextHop("10.0.0.3", "ge-0/0/1.0")>>),
                         RtEntry("OSPF", "20", <<NextHop("10.0.0.4", "ge-0/0/1.0")>>) >>),
    Rt("10.2.0.1/32", << RtEntry("Access-internal", "", <<NextHop("", "ge-0/0/2.0")>>),
                         RtEntry("Local", "", <<NextHop("", "")>>) >>),
    Rt("10.3.0.0/16", << RtEntry("Static", "", <<>>) >>),
    Rt("10.4.0.0/24", << RtEntry("Direct", "7", <<NextHop("", "ge-0/0/3.0")>>) >>) >>

RouteTable(name, rts) ==
    PyDict(<< <<"table-name", PyStr(name)>> >> \o Repeated("rt", rts))

RouteInformation(tables) ==
    PyDict(<< <<"route-information", PyDict(Repeated("route-table", tables))>> >>)

\* the route lists of the inet.0 table: up to MaxEntries of the routes
RouteLists ==
    UNION {[1..n -> 1..Len(Routes)] : n \in 1..MaxEntries}

\* the replies to get-route-information: inet.0 alone, inet.0 after or
\* before the inet6.0 table, no inet.0 table at all, and the error
RoutingReplies ==
    {RouteInformation(<<RouteTable("inet.0", [i \in DOMAIN l |-> Routes[l[i]]])>>) :
        l \in RouteLists}
    \cup {RouteInformation(<<RouteTable("inet6.0", <<Routes[1]>>),
                             RouteTable("inet.0", <<Routes[2], Routes[3]>>)>>),
          RouteInformation(<<RouteTable("inet6.0", <<Routes[1]>>)>>),
          RpcError}

\* the body of the 'with' block of Routing.__enter__
Routing_enter(self, d, answer) ==
    IF d = "none" THEN [me |-> self, log |-> <<>>, out |-> "return"]
    ELSE [me |-> [self EXCEPT !["routing"] = rpc_commands(d, answer)],
          log |-> RpcCall(d, "get-route-information"),
          out |-> "normal"]

\* the first table named inet.0, None when there is none
RECURSIVE Ipv4Table(_)
Ipv4Table(tables) ==
    IF tables = <<>> THEN PyNone
    ELSE LET name == GetItem(Head(tables), "table-name")
         IN  IF IsExc(name) THEN name
             ELSE IF name = PyStr("inet.0") THEN GetItem(Head(tables), "rt")
             ELSE Ipv4Table(Tail(tables))

\* one next hop of a route
HopRecord(hop) ==
    Entry(<< <<"hop", LET c == In("to", hop)
                      IN  IF IsExc(c) THEN c
                          ELSE IF ~c.v THEN PyNone ELSE GetItem(hop, "to")>>,
             <<"interface", LET c == In("via", hop)
                            IN  IF IsExc(c) THEN c
                                ELSE IF ~c.v THEN PyNone ELSE GetItem(hop, "via")>> >>)

\* the metric of one rt-entry
RouteMetric(protocol, specific_route) ==
    IF protocol = PyStr("Direct") \/ protocol = PyStr("Local") THEN PyInt(0)
    ELSE LET has == In("metric", specific_route)
         IN  IF protocol = PyStr("Static") /\ IsExc(has) THEN has
             ELSE IF protocol = PyStr("Static") /\ ~has.v THEN PyInt(1)
             ELSE GetItem(specific_route, "metric")

\* RouteRecord without the test for internal routes
RouteRecord_keepinternal(destination, specific_route) ==
    LET protocol == GetItem(specific_route, "protocol-name")
        has_nh == In("nh", specific_route)
    IN  IF IsExc(protocol) THEN protocol
        ELSE Entry(<< <<"protocol", protocol>>,
                      <<"route", destination>>,
                      <<"metric", RouteMetric(protocol, specific_route)>> >>
                   \o (IF IsExc(has_nh) THEN << <<"next_hop", has_nh>> >>
                       ELSE IF has_nh.v
                       THEN << <<"next_hop",
                                 ForEach(AsList(GetItem(specific_route, "nh")),
                                         HopRecord)>> >>
                       ELSE <<>>))

\* one pass of the loop over the rt-entry elements of a route
RouteRecord(destination, specific_route) ==
    LET protocol == GetItem(specific_route, "protocol-name")
        has_nh == In("nh", specific_route)
    IN  IF IsExc(protocol) THEN protocol
        ELSE IF protocol = PyStr("Access-internal") THEN Skip
        ELSE Entry(<< <<"protocol", protocol>>,
                      <<"route", destination>>,
                      <<"metric", RouteMetric(protocol, specific_route)>> >>
                   \o (IF IsExc(has_nh) THEN << <<"next_hop", has_nh>> >>
                       ELSE IF has_nh.v
                       THEN << <<"next_hop",
                                 ForEach(AsList(GetItem(specific_route, "nh")),
                                         HopRecord)>> >>
                       ELSE <<>>))

\* one pass of the loop over the routes of the table
RouteRecords(route) ==
    LET destination == GetItem(route, "rt-destination")
        route_entry == AsList(GetItem(route, "rt-entry"))
    IN  IF IsExc(destination) THEN destination
        ELSE IF IsExc(route_entry) THEN route_entry
        ELSE Collect([i \in 1..Len(route_entry.v) |->
                        RouteRecord(destination, route_entry.v[i])])

\* Routing.routing_table
Routing_routing_table(self) ==
    LET table_list ==
            AsList(Path(Attr(self, "routing"), <<"route-information", "route-table">>))
        ipv4_table == IF IsExc(table_list) THEN table_list ELSE Ipv4Table(table_list.v)
        routes == Iter(ipv4_table)
    IN  Entry(<< <<"entry",
                   IF IsExc(routes) THEN routes
                   ELSE Flatten([i \in 1..Len(routes.v) |-> RouteRecords(routes.v[i])])>> >>)

----------------------------------------------------------------------------
(* vlans.py *)

VlanId == <<"10", "20", "99">>
VlanDescription == <<"", "Phones", "">>
VlanIrb == <<"irb.10", "", "">>

\* one vlan element of the configuration
VlanConfig(n) ==
    PyDict(<< <<"name", PyStr(VlanName[n])>>, <<"vlan-id", PyStr(VlanId[n])>> >>
           \o (IF VlanDescription[n] = "" THEN <<>>
               ELSE << <<"description", PyStr(VlanDescription[n])>> >>)
           \o (IF VlanIrb[n] = "" THEN <<>>
               ELSE << <<"l3-interface", PyStr(VlanIrb[n])>> >>))

\* the configuration fetched with the filter ['vlans'], of n VLANs; without
\* any the configuration element is empty
VlansConfig(n) ==
    IF n = 0 THEN PyDict(<< <<"configuration", PyNone>> >>)
    ELSE PyDict(<< <<"configuration",
                     PyDict(<< <<"vlans",
                                 PyDict(Repeated("vlan",
                                     [i \in 1..n |-> VlanConfig(i)]))>> >>)>> >>)

VlanReplies == {VlansConfig(n) : n \in 0..MaxEntries} \cup {RpcError}

\* the body of the 'with' block of Vlan.__enter__: no test of the handle
Vlan_enter(self, d, answer) ==
    [me |-> [self EXCEPT !["config"] = get_config(d, answer)],
     log |-> ConfigCall(d, <<"vlans">>),
     out |-> "normal"]

\* one pass of the loop of Vlan.vlans
VlanRecord(vlan) ==
    Entry(<< <<"id", GetItem(vlan, "vlan-id")>>,
             <<"name", GetItem(vlan, "name")>>,
             <<"description", GetOr(vlan, "description", PyStr(""))>>,
             <<"irb", GetOr(vlan, "l3-interface", PyNone)>> >>)

\* Vlan.vlans with a test that takes a missing configuration for one without
\* vlans, instead of raising on it
Vlan_vlans_lenient(self) ==
    LET config == Attr(self, "config")
    IN  Entry(<< <<"vlans",
                   IF IsDict(config) /\ HasKey(config, "vlans")
                   THEN ForEach(Path(config, <<"configuration", "vlans", "vlan">>),
                                VlanRecord)
                   ELSE PyList(<<>>)>> >>)

\* Vlan.vlans: the test is made on the top level of the fetched dictionary
Vlan_vlans(self) ==
    LET config == Attr(self, "config")
        has == In("vlans", config)
    IN  Entry(<< <<"vlans",
                   IF IsExc(has) THEN has
                   ELSE IF has.v
                   THEN ForEach(Path(config, <<"configuration", "vlans", "vlan">>),
                                VlanRecord)
                   ELSE PyList(<<>>)>> >>)

----------------------------------------------------------------------------
(* lldp.py *)

\* one lldp-neighbor-information element: of the detail form, and of the
\* sparse form of older software
LldpNeighbor(n) ==
    IF n = 1
    THEN PyDict(<< <<"lldp-local-interface", PyStr("ge-0/0/1")>>,
                   <<"lldp-remote-chassis-id", PyStr(MacAddress[1])>>,
                   <<"lldp-remote-system-name", PyStr("sw2")>>,
                   <<"lldp-remote-management-address", PyStr("10.0.0.2")>>,
                   <<"lldp-remote-inventory-manufacturer-name", PyStr("Juniper")>>,
                   <<"lldp-remote-port-description", PyStr("uplink")>>,
                   <<"lldp-system-description",
                     PyDict(<< <<"lldp-remote-system-description",
                                 PyStr("ex2300-c-12p")>> >>)>>,
                   <<"lldp-remote-inventory-serial-number", PyStr("HV0217")>> >>)
    ELSE PyDict(<< <<"lldp-local-interface", PyStr(PortName[n])>>,
                   <<"lldp-remote-chassis-id", PyStr(MacAddress[n])>> >>)

\* the replies to the LLDP calls with n neighbours
LldpInformation(n) ==
    PyDict(<< <<"lldp-neighbors-information",
                IF n = 0 THEN PyNone
                ELSE PyDict(Repeated("lldp-neighbor-information",
                                [i \in 1..n |-> LldpNeighbor(i)]))>> >>)

LldpReplies == {LldpInformation(n) : n \in 0..MaxEntries} \cup {RpcError}

\* the body of the 'with' block of Lldp.__enter__: the second call is made
\* when the first one raises
Lldp_enter(self, d, detail, plain) ==
    IF d = "none" THEN [me |-> self, log |-> <<>>, out |-> "return"]
    ELSE LET first == rpc_commands(d, detail)
         IN  IF IsExc(first)
             THEN [me |-> [self EXCEPT !["lldp_interface"] = rpc_commands(d, plain)],
                   log |-> RpcCall(d, "get-lldp-neighbor-detail-information")
                           \o RpcCall(d, "get-lldp-neighbors-information"),
                   out |-> "normal"]
             ELSE [me |-> [self EXCEPT !["lldp_interface"] = first],
                   log |-> RpcCall(d, "get-lldp-neighbor-detail-information"),
                   out |-> "normal"]

\* one pass of the loop of Lldp.interfaces
LldpRecord(interface) ==
    Entry(<< <<"name", GetOr(interface, "lldp-local-interface", PyStr(""))>>,
             <<"mac", GetOr(interface, "lldp-remote-chassis-id", PyStr(""))>>,
             <<"system", GetOr(interface, "lldp-remote-system-name", PyStr(""))>>,
             <<"ip", GetOr(interface, "lldp-remote-management-address", PyStr(""))>>,
             <<"vendor",
               GetOr(interface, "lldp-remote-inventory-manufacturer-name", PyStr(""))>>,
             <<"description",
               GetOr(interface, "lldp-remote-port-description", PyStr(""))>>,
             <<"model",
               LET c == In("lldp-system-description", interface)
               IN  IF IsExc(c) THEN c
                   ELSE IF c.v
                   THEN Path(interface, <<"lldp-system-description",
                                          "lldp-remote-system-description">>)
                   ELSE PyStr("")>>,
             <<"serial",
               GetOr(interface, "lldp-remote-inventory-serial-number", PyStr(""))>> >>)

\* Lldp.interfaces
Lldp_interfaces(self) ==
    LET lldp_ints == AsList(Path(Attr(self, "lldp_interface"),
                                 <<"lldp-neighbors-information",
                                   "lldp-neighbor-information">>))
    IN  Entry(<< <<"interfaces", ForEach(lldp_ints, LldpRecord)>> >>)

----------------------------------------------------------------------------
(* ospf.py *)

AreaId == <<"0.0.0.0", "0.0.0.1", "0.0.0.2">>

OspfAreaOverview(n) ==
    PyDict(<< <<"ospf-area", PyStr(AreaId[n])>>,
              <<"ospf-stub-type", PyStr(IF n = 1 THEN "Not Stub" ELSE "Stub")>>,
              <<"authentication-type", PyStr("None")>>,
              <<"ospf-nbr-overview",
                PyDict(<< <<"ospf-nbr-up-count", PyStr("1")>> >>)>> >>)

\* the replies to get-ospf-overview-information: OSPF running with n areas,
\* and the text the device prints instead
OspfOverview(n) ==
    PyDict(<< <<"ospf-overview-information",
                PyDict(<< <<"ospf-overview",
                            PyDict(<< <<"ospf-router-id", PyStr("10.0.0.1")>> >>
                                   \o Repeated("ospf-area-overview",
                                        [i \in 1..n |-> OspfAreaOverview(i)]))>> >>)>> >>)
OspfOutput(text) == PyDict(<< <<"output", PyStr(text)>> >>)
OspfNotRunning == OspfOutput("OSPF instance is not running")

OverviewReplies ==
    {OspfOverview(n) : n \in 1..MaxEntries}
    \cup {OspfNotRunning, OspfOutput("OSPF instance is starting"), RpcError}

\* the configuration fetched with the filter ['protocols/ospf']
OspfConfig(bandwidth) ==
    PyDict(<< <<"configuration",
                PyDict(<< <<"protocols",
                            PyDict(<< <<"ospf",
                                PyDict((IF bandwidth = "" THEN <<>>
                                        ELSE << <<"reference-bandwidth",
                                                  PyStr(bandwidth)>> >>)
                                       \o << <<"area",
                                               PyDict(<< <<"name", PyStr(AreaId[1])>> >>)>> >>)
                              >> >>)>> >>)>> >>)

OspfConfigReplies == {OspfConfig(""), OspfConfig("10g"), RpcError}

OspfNeighbor(n) ==
    PyDict(<< <<"neighbor-address", PyStr(IF n = 1 THEN "10.0.0.2" ELSE "10.0.1.2")>>,
              <<"interface-name", PyStr(PortName[n])>>,
              <<"ospf-neighbor-state", PyStr("Full")>>,
              <<"neighbor-id", PyStr(IF n = 1 THEN "10.0.0.2" ELSE "10.0.1.2")>> >>)

\* the replies to get-ospf-neighbor-information with n neighbours
OspfNeighborInformation(n) ==
    PyDict(<< <<"ospf-neighbor-information",
                IF n = 0 THEN PyNone
                ELSE PyDict(Repeated("ospf-neighbor",
                                [i \in 1..n |-> OspfNeighbor(i)]))>> >>)

NeighborReplies == {OspfNeighborInformation(n) : n \in 0..MaxEntries} \cup {RpcError}

OspfInterface(n) ==
    PyDict(<< <<"interface-name", PyStr(PortName[n])>>,
              <<"ospf-interface-state", PyStr(IF n = 1 THEN "DR" ELSE "PtToPt")>>,
              <<"ospf-area", PyStr(AreaId[1])>>,
              <<"neighbor-count", PyStr("1")>> >>)

\* the replies to get-ospf-interface-information with n interfaces
OspfInterfaceInformation(n) ==
    PyDict(<< <<"ospf-interface-information",
                IF n = 0 THEN PyNone
                ELSE PyDict(Repeated("ospf-interface",
                                [i \in 1..n |-> OspfInterface(i)]))>> >>)

OspfInterfaceReplies ==
    {OspfInterfaceInformation(n) : n \in 0..MaxEntries} \cup {RpcError}

\* a test that never sees the marker
NeverRunning(overview) == PyBool(FALSE)

\* 'output' in self.overview and 'not running' in self.overview['output']
NotRunning(overview) ==
    LET has == In("output", overview)
    IN  IF IsExc(has) THEN has
        ELSE IF ~has.v THEN PyBool(FALSE)
        ELSE In("not running", GetItem(overview, "output"))

\* the body of the 'with' block of Ospf.__enter__
Ospf_enter(self, d, overview, config, neighbour, interface) ==
    IF d = "none" THEN [me |-> self, log |-> <<>>, out |-> "return"]
    ELSE LET seen == ("overview" :> rpc_commands(d, overview)) @@ self
             marker == NotRunning(seen["overview"])
             first == RpcCall(d, "get-ospf-overview-information")
         IN  IF IsExc(marker)
             THEN [me |-> seen, log |-> first, out |-> marker.v]
             ELSE IF marker.v
             THEN [me |-> ("supported" :> PyBool(FALSE)) @@ seen,
                   log |-> first,
                   out |-> "normal"]
             ELSE [me |-> ("supported" :> PyBool(TRUE))
                          @@ ("config" :> get_config(d, config))
                          @@ ("neighbour_info" :> rpc_commands(d, neighbour))
                          @@ ("interface_info" :> rpc_commands(d, interface))
                          @@ seen,
                   log |-> first
                           \o ConfigCall(d, <<"protocols/ospf">>)
                           \o RpcCall(d, "get-ospf-neighbor-information")
                           \o RpcCall(d, "get-ospf-interface-information"),
                   out |-> "normal"]

\* self.supported is False
Unsupported(self) == Attr(self, "supported") = PyBool(FALSE)

\* Ospf.ospf
Ospf_ospf(self) ==
    IF IsExc(Attr(self, "supported")) THEN Attr(self, "supported")
    ELSE IF Unsupported(self)
    THEN PyDict(<< <<"id", PyStr("")>>, <<"reference", PyStr("")>> >>)
    ELSE LET ospf == Path(Attr(self, "config"), <<"configuration", "protocols", "ospf">>)
             bw == GetOr(ospf, "reference-bandwidth", PyStr("100mbps"))
             id == Path(Attr(self, "overview"),
                        <<"ospf-overview-information", "ospf-overview", "ospf-router-id">>)
         IN  IF IsExc(bw) THEN bw
             ELSE Entry(<< <<"id", id>>, <<"reference", bw>> >>)

\* one pass of the loop of Ospf.areas
AreaRecord(area) ==
    Entry(<< <<"id", GetItem(area, "ospf-area")>>,
             <<"type", GetItem(area, "ospf-stub-type")>>,
             <<"authentication", GetItem(area, "authentication-type")>>,
             <<"neighbors", Path(area, <<"ospf-nbr-overview", "ospf-nbr-up-count">>)>> >>)

\* Ospf.areas
Ospf_areas(self) ==
    IF IsExc(Attr(self, "supported")) THEN Attr(self, "supported")
    ELSE IF Unsupported(self) THEN PyDict(<< <<"areas", PyStr("")>> >>)
    ELSE LET areas == AsList(Path(Attr(self, "overview"),
                                  <<"ospf-overview-information", "ospf-overview",
                                    "ospf-area-overview">>))
         IN  Entry(<< <<"areas", ForEach(areas, AreaRecord)>> >>)

\* one pass of the loop of Ospf.neighbours
NeighbourRecord(neighbour) ==
    Entry(<< <<"address", GetItem(neighbour, "neighbor-address")>>,
             <<"interface", GetItem(neighbour, "interface-name")>>,
             <<"state", GetItem(neighbour, "ospf-neighbor-state")>>,
             <<"id", GetItem(neighbour, "neighbor-id")>> >>)

\* Ospf.neighbours
Ospf_neighbours(self) ==
    IF IsExc(Attr(self, "supported")) THEN Attr(self, "supported")
    ELSE IF Unsupported(self) THEN PyDict(<< <<"neighbor", PyStr("")>> >>)
    ELSE LET neighbour_list == AsList(Path(Attr(self, "neighbour_info"),
                                           <<"ospf-neighbor-information",
                                             "ospf-neighbor">>))
         IN  Entry(<< <<"neighbor", ForEach(neighbour_list, NeighbourRecord)>> >>)

\* one pass of the loop of Ospf.interfaces
OspfInterfaceRecord(interface) ==
    Entry(<< <<"name", GetItem(interface, "interface-name")>>,
             <<"state", GetItem(interface, "ospf-interface-state")>>,
             <<"area", GetItem(interface, "ospf-area")>>,
             <<"neighbors", GetItem(interface, "neighbor-count")>> >>)

\* Ospf.interfaces: the list is iterated as it comes
Ospf_interfaces(self) ==
    IF IsExc(Attr(self, "supported")) THEN Attr(self, "supported")
    ELSE IF Unsupported(self) THEN PyDict(<< <<"interface", PyList(<<>>)>> >>)
    ELSE LET int_list == Path(Attr(self, "interface_info"),
                              <<"ospf-interface-information", "ospf-interface">>)
         IN  Entry(<< <<"interface", ForEach(int_list, OspfInterfaceRecord)>> >>)

----------------------------------------------------------------------------
(* hardware.py *)

\* connection.dev.facts of the devices polled: an EX switch with PoE, an EX
\* switch without, an SRX firewall
Models == {"EX2300-C-12P", "EX4300-48T", "SRX340"}

\* the facts of a device of which only the model is read
ModelFact(model) == PyDict(<< <<"model", PyStr(model)>> >>)

Celsius(n) == PyDict(<< <<"@celsius", PyStr(n)>> >>)

\* one route-engine element: the first reports its memory as a DRAM size and
\* a buffer utilization, the others as totals
RouteEngine(n) ==
    PyDict(<< <<"cpu-idle", PyStr(IF n = 1 THEN "90" ELSE "97")>>,
              <<"load-average-one", PyStr("0.15")>>,
              <<"load-average-five", PyStr("0.10")>>,
              <<"load-average-fifteen", PyStr("0.05")>> >>
           \o (IF n = 1
               THEN << <<"memory-dram-size", PyStr("2048 MB")>>,
                       <<"memory-buffer-utilization", PyStr("40")>> >>
               ELSE << <<"memory-system-total", PyStr("4096")>>,
                       <<"memory-system-total-used", PyStr("1024")>> >>)
           \o << <<"cpu-temperature", Celsius("45")>>,
                 <<"temperature", Celsius("38")>> >>)

\* the replies to get-route-engine-information with n routing engines
RouteEngineInformation(n) ==
    PyDict(<< <<"route-engine-information",
                PyDict(Repeated("route-engine", [i \in 1..n |-> RouteEngine(i)]))>> >>)

RouteEngineReplies == {RouteEngineInformation(n) : n \in 1..MaxEntries} \cup {RpcError}

Blocks(n) == PyDict(<< <<"@format", PyStr(n)>> >>)
FilesystemName == <<"/dev/gpt/junos", "tmpfs", "/dev/md0">>
Filesystem(n) ==
    PyDict(<< <<"filesystem-name", PyStr(FilesystemName[n])>>,
              <<"total-blocks", Blocks(IF n = 1 THEN "1.3G" ELSE "593M")>>,
              <<"used-blocks", Blocks(IF n = 1 THEN "495M" ELSE "8.0K")>> >>)

\* the replies to get-system-storage: of one engine with n filesystems, and
\* of e engines with n filesystems each
SystemStorage(n) ==
    PyDict(<< <<"system-storage-information",
                PyDict(Repeated("filesystem", [i \in 1..n |-> Filesystem(i)]))>> >>)
MultiStorage(e, n) ==
    PyDict(<< <<"multi-routing-engine-results",
                PyDict(Repeated("multi-routing-engine-item",
                    [i \in 1..e |->
                        PyDict(<< <<"re-name", PyStr(IF i = 1 THEN "fpc0" ELSE "fpc1")>> >>
                               \o SystemStorage(n).v)]))>> >>)

StorageReplies ==
    {SystemStorage(n) : n \in 1..MaxEntries}
    \cup {MultiStorage(e, MaxEntries) : e \in 1..MaxEntries}
    \cup {RpcError}

FanName == <<"FPC 0 Fan 1", "FPC 0 Fan 2", "FPC 0 Fan 3">>

\* one environment-item element: a fan, or the power supply
EnvironmentItem(n) ==
    PyDict(<< <<"name", PyStr(IF n = 1 THEN "FPC 0 Power Supply 0" ELSE FanName[n])>>,
              <<"class", PyStr(IF n = 1 THEN "Power" ELSE "Fans")>>,
              <<"status", PyStr("OK")>> >>
           \o (IF n = 1 THEN <<>>
               ELSE << <<"comment", PyStr("Spinning at normal speed")>> >>))

FanItem(n) ==
    PyDict(<< <<"name", PyStr(FanName[n])>>,
              <<"status", PyStr("OK")>>,
              <<"rpm", PyStr("7800")>>,
              <<"comment", PyStr("Spinning at normal speed")>> >>)

\* the replies to get-environment-information and to get-fan-information
EnvironmentInformation(n) ==
    PyDict(<< <<"environment-information",
                PyDict(Repeated("environment-item",
                                [i \in 1..n |-> EnvironmentItem(i)]))>> >>)
FanInformation(n) ==
    PyDict(<< <<"fan-information",
                PyDict(Repeated("fan-information-rpm-item",
                                [i \in 1..n |-> FanItem(i)]))>> >>)

EnvironmentReplies == {EnvironmentInformation(n) : n \in 1..MaxEntries} \cup {RpcError}
FanReplies == {FanInformation(n) : n \in 1..MaxEntries} \cup {RpcError}

\* the body of the 'with' block of Hardware.__enter__
Hardware_enter(self, d, model, engines, storage, environment, fans) ==
    IF d = "none" THEN [me |-> self, log |-> <<>>, out |-> "return"]
    ELSE [me |-> [self EXCEPT
                    !["re"] = rpc_commands(d, engines),
                    !["storage"] = rpc_commands(d, storage),
                    !["fans"] = IF Contains("EX", model)
                                THEN rpc_commands(d, environment)
                                ELSE rpc_commands(d, fans)],
          log |-> RpcCall(d, "get-route-engine-information")
                  \o RpcCall(d, "get-system-storage")
                  \o (IF Contains("EX", model)
                      THEN RpcCall(d, "get-environment-information")
                      ELSE RpcCall(d, "get-fan-information")),
          out |-> "normal"]

\* self.re['route-engine-information']['route-engine'], as a list
Engines(self) ==
    AsList(Path(Attr(self, "re"), <<"route-engine-information", "route-engine">>))

\* 100 - int(x)
Used(idle) == IF IsExc(idle) THEN idle ELSE PyInt(100 - idle.v)

CpuRecord(rengine) ==
    Entry(<< <<"used", Used(ToInt(GetItem(rengine, "cpu-idle")))>>,
             <<"idle", ToInt(GetItem(rengine, "cpu-idle"))>>,
             <<"1_min", ToFloat(GetItem(rengine, "load-average-one"))>>,
             <<"5_min", ToFloat(GetItem(rengine, "load-average-five"))>>,
             <<"15min", ToFloat(GetItem(rengine, "load-average-fifteen"))>> >>)

\* Hardware.cpu
Hardware_cpu(self) == Entry(<< <<"cpu", ForEach(Engines(self), CpuRecord)>> >>)

MemoryRecord(rengine) ==
    LET dram == In("memory-dram-size", rengine)
        buffer == In("memory-buffer-utilization", rengine)
    IN  Entry(<< <<"total",
                   IF IsExc(dram) THEN dram
                   ELSE IF dram.v
                   THEN ToInt(FirstWord(GetItem(rengine, "memory-dram-size")))
                   ELSE ToInt(GetItem(rengine, "memory-system-total"))>>,
                 <<"used",
                   IF IsExc(buffer) THEN buffer
                   ELSE IF buffer.v
                   THEN ToInt(GetItem(rengine, "memory-buffer-utilization"))
                   ELSE ToInt(GetItem(rengine, "memory-system-total-used"))>> >>)

\* Hardware.memory
Hardware_memory(self) == Entry(<< <<"memory", ForEach(Engines(self), MemoryRecord)>> >>)

FilesystemRecord(disk) ==
    Entry(<< <<"disk", GetItem(disk, "filesystem-name")>>,
             <<"size", Path(disk, <<"total-blocks", "@format">>)>>,
             <<"used", Path(disk, <<"used-blocks", "@format">>)>> >>)

\* the entry a pass of the single-engine loop leaves: a new entry with the
\* one filesystem of the pass
SingleEngineEntry(disk) ==
    Entry(<< <<"filesystem",
               LET fs == FilesystemRecord(disk)
               IN  IF IsExc(fs) THEN fs ELSE PyList(<<fs>>)>> >>)

\* the entry a pass of the multi-engine loop leaves: the filesystems of the
\* engine of the pass
MultiEngineEntry(disk) ==
    Entry(<< <<"filesystem",
               ForEach(Path(disk, <<"system-storage-information", "filesystem">>),
                       FilesystemRecord)>> >>)

\* the value of 'entry' after a loop that assigns it in every pass: that of
\* the last pass; the name is unbound when there was no pass
LastEntry(x, Pass(_)) ==
    LET items == Iter(x)
        passes == [i \in 1..Len(items.v) |-> Pass(items.v[i])]
    IN  IF IsExc(items) THEN items
        ELSE IF AnyExc(passes) THEN FirstExc(passes)
        ELSE IF items.v = <<>> THEN Exc("UnboundLocalError")
        ELSE passes[Len(passes)]

\* Hardware.disk: storage['disk'].append(entry) follows the loops
Hardware_disk(self) ==
    LET storage == Attr(self, "storage")
        single == In("system-storage-information", storage)
        entry ==
            IF IsExc(single) THEN single
            ELSE IF single.v
            THEN LastEntry(Path(storage, <<"system-storage-information", "filesystem">>),
                           SingleEngineEntry)
            ELSE LastEntry(AsList(Path(storage, <<"multi-routing-engine-results",
                                                  "multi-routing-engine-item">>)),
                           MultiEngineEntry)
    IN  Entry(<< <<"disk", IF IsExc(entry) THEN entry ELSE PyList(<<entry>>)>> >>)

TemperatureRecord(rengine) ==
    Entry(<< <<"cpu", ToInt(Path(rengine, <<"cpu-temperature", "@celsius">>))>>,
             <<"chassis", ToInt(Path(rengine, <<"temperature", "@celsius">>))>> >>)

\* Hardware.temperature
Hardware_temperature(self) ==
    Entry(<< <<"temperature", ForEach(Engines(self), TemperatureRecord)>> >>)

\* one pass of the loop over the environment items: the fans only
EnvironmentFanRecord(item) ==
    LET class == GetItem(item, "class")
    IN  IF IsExc(class) THEN class
        ELSE IF class # PyStr("Fans") THEN Skip
        ELSE Entry(<< <<"fan", GetItem(item, "name")>>,
                      <<"status", GetItem(item, "status")>>,
                      <<"rpm", PyStr("N/A")>>,
                      <<"detail", GetItem(item, "comment")>> >>)

FanRecord(item) ==
    Entry(<< <<"fan", GetItem(item, "name")>>,
             <<"status", GetItem(item, "status")>>,
             <<"rpm", GetItem(item, "rpm")>>,
             <<"detail", GetItem(item, "comment")>> >>)

\* Hardware.fan
Hardware_fan(self) ==
    LET fans == Attr(self, "fans")
        environment == In("environment-information", fans)
    IN  Entry(<< <<"fan",
                   IF IsExc(environment) THEN environment
                   ELSE IF environment.v
                   THEN ForEach(Path(fans, <<"environment-information",
                                             "environment-item">>),
                                EnvironmentFanRecord)
                   ELSE ForEach(Path(fans, <<"fan-information",
                                             "fan-information-rpm-item">>),
                                FanRecord)>> >>)

----------------------------------------------------------------------------
(* interfaces.py *)

InterfaceName == <<"ge-0/0/1", "ge-0/0/2", "ae0", "irb", "gr-0/0/0">>

AddressFamily(name) == PyDict(<< <<"address-family-name", PyStr(name)>> >>)

LogicalInterface(name, families) ==
    PyDict(<< <<"name", PyStr(name)>> >> \o Repeated("address-family", families))

TrafficStatistics(counters) ==
    PyDict([i \in 1..Len(counters) |-> <<counters[i][1], PyStr(counters[i][2])>>])

\* the physical-interface elements the replies are made of: an access port,
\* a port with partial statistics and two units, a bundle without
\* statistics, a routed interface with an address family of its own, and an
\* internal interface
PhysicalInterface(n) ==
    PyDict(<< <<"name", PyStr(InterfaceName[n])>> >>
        \o (CASE n = 1 -> << <<"current-physical-address",
                               PyDict(<< <<"#text", PyStr(MacAddress[1])>> >>)>>,
                             <<"speed", PyStr("1000mbps")>>,
                             <<"description", PyStr("uplink")>>,
                             <<"traffic-statistics",
                               TrafficStatistics(<< <<"input-bps", "1200">>,
                                                    <<"input-pps", "2">>,
                                                    <<"output-bps", "800">>,
                                                    <<"output-pps", "1">> >>)>>,
                             <<"logical-interface",
                               LogicalInterface("ge-0/0/1.0",
                                                <<AddressFamily("eth-switch")>>)>> >>
              [] n = 2 -> << <<"current-physical-address", PyStr(MacAddress[2])>>,
                             <<"traffic-statistics",
                               TrafficStatistics(<< <<"input-bps", "0">> >>)>>,
                             <<"logical-interface",
                               PyList(<< LogicalInterface("ge-0/0/2.0",
                                             <<AddressFamily("inet"),
                                               AddressFamily("inet6")>>),
                                         LogicalInterface("ge-0/0/2.32767", <<>>) >>)>> >>
              [] n = 3 -> << <<"current-physical-address", PyStr(MacAddress[3])>>,
                             <<"speed", PyStr("Unspecified")>> >>
              [] n = 4 -> << <<"address-family",
                               PyDict(<< <<"address-family-name", PyStr("inet")>>,
                                         <<"ifa-destination", PyStr("10.0.0.0/24")>>,
                                         <<"ifa-local", PyStr("10.0.0.1")>> >>)>> >>
              [] OTHER -> <<>>))

\* the replies to get-interface-information
InterfaceInformation(items) ==
    PyDict(<< <<"interface-information",
                PyDict(Repeated("physical-interface", items))>> >>)

InterfaceLists ==
    UNION {[1..n -> 1..Len(InterfaceName)] : n \in 1..MaxEntries}

InterfaceReplies ==
    {InterfaceInformation([i \in DOMAIN l |-> PhysicalInterface(l[i])]) :
        l \in InterfaceLists}
    \cup {RpcError}

\* one interface-information element of the PoE reply
PoeInterface(n) ==
    PyDict(<< <<"interface-name", PyStr(InterfaceName[n])>>,
              <<"interface-enabled", PyStr(IF n = 1 THEN "Enabled" ELSE "Disabled")>>,
              <<"interface-status", PyStr(IF n = 1 THEN "on" ELSE "off")>>,
              <<"interface-power-limit", PyStr("15.4W")>>,
              <<"interface-power", PyStr(IF n = 1 THEN "3.2W" ELSE "0.0W")>> >>)

\* the replies to get-poe-interface-information listing the ports 1..n in
\* either order, or none
PoeInformation(ports) ==
    PyDict(<< <<"poe",
                IF ports = <<>> THEN PyNone
                ELSE PyDict(Repeated("interface-information",
                                [i \in DOMAIN ports |-> PoeInterface(ports[i])]))>> >>)

PoeReplies ==
    {PoeInformation(ports) : ports \in {<<>>, <<1>>, <<1, 2>>, <<2, 1>>}}
    \cup {RpcError}

\* the body of the 'with' block of Interfaces.__enter__
Interfaces_enter(self, d, model, interfaces, poe) ==
    IF d = "none" THEN [me |-> self, log |-> <<>>, out |-> "return"]
    ELSE [me |-> [self EXCEPT
                    !["interface_list"] = rpc_commands(d, interfaces),
                    !["poe"] = IF Contains("P", model) THEN rpc_commands(d, poe)
                               ELSE self["poe"]],
          log |-> RpcCall(d, "get-interface-information")
                  \o (IF Contains("P", model)
                      THEN RpcCall(d, "get-poe-interface-information")
                      ELSE <<>>),
          out |-> "normal"]

\* the interfaces the loop skips
InternalInterfaces ==
    {"gr-0/0/0", "ip-0/0/0", "lsq-0/0/0", "lt-0/0/0", "mt-0/0/0", "sp-0/0/0",
     "dl0", "esi", "fti0", "gre", "ipip", "jsrv", "lsi", "mtun", "pimd", "pime",
     "pp0", "ppd0", "ppe0", "rbeb", "tap", "vtep", "pfe-0/0/0", "pfh-0/0/0",
     "bme0", "cbp0", "pip0"}

\* x / y for two str
StrDiv(x, y) == IF IsExc(x) THEN x ELSE IF IsExc(y) THEN y ELSE Exc("TypeError")

\* x.split('/')[1]
AfterSlash(x) ==
    IF IsExc(x) THEN x
    ELSE IF x.t # "str" THEN Exc("AttributeError")
    ELSE IF Len(Split(x.v, "/")) < 2 THEN Exc("IndexError")
    ELSE PyStr(Split(x.v, "/")[2])

\* entry['mac']
InterfaceMac(item) ==
    LET has == In("current-physical-address", item)
        address == GetItem(item, "current-physical-address")
        text == In("#text", address)
    IN  IF IsExc(has) THEN has
        ELSE IF ~has.v THEN PyStr("")
        ELSE IF IsExc(text) THEN text
        ELSE IF text.v THEN GetItem(address, "#text")
        ELSE address

\* entry['family']
InterfaceFamily(item) ==
    LET has == In("address-family", item)
    IN  IF IsExc(has) THEN has
        ELSE IF has.v THEN Path(item, <<"address-family", "address-family-name">>)
        ELSE PyStr("")

\* entry['address']: the mask, then the address, then the division of the
\* two formatted strings
InterfaceAddress(item, family) ==
    IF IsExc(family) THEN family
    ELSE IF family = PyStr("inet")
    THEN LET mask == AfterSlash(Path(item, <<"address-family", "ifa-destination">>))
             ip_address == Path(item, <<"address-family", "ifa-local">>)
         IN  IF IsExc(mask) THEN mask ELSE StrDiv(ip_address, mask)
    ELSE PyStr("")

\* entry['counters']
InterfaceCounters(item) ==
    LET has == In("traffic-statistics", item)
        stats == GetItem(item, "traffic-statistics")
    IN  IF IsExc(has) THEN has
        ELSE IF ~has.v THEN PyDict(<<>>)
        ELSE Entry(<< <<"bps_in", GetOr(stats, "input-bps", PyInt(0))>>,
                      <<"bps_out", GetOr(stats, "output-bps", PyInt(0))>>,
                      <<"pps_in", GetOr(stats, "input-pps", PyInt(0))>>,
                      <<"pps_out", GetOr(stats, "output-pps", PyInt(0))>> >>)

\* int_entry['address'] of one address family of a unit
UnitAddress(interface) ==
    LET has == In("family", interface)
    IN  IF IsExc(has) THEN has
        ELSE IF ~has.v THEN PyStr("")
        ELSE IF GetItem(interface, "family") # PyStr("inet") THEN PyStr("")
        ELSE Exc("TypeError")   \* interface(['address-family']): a dict is called

UnitFamilyRecord(interface) ==
    Entry(<< <<"family", GetItem(interface, "address-family-name")>>,
             <<"description", GetOr(interface, "description", PyStr(""))>>,
             <<"address", UnitAddress(interface)>> >>)

\* one pass of the loop over the logical interfaces
UnitRecord(sub_interface) ==
    LET has == In("address-family", sub_interface)
    IN  Entry(<< <<"subinterface", GetItem(sub_interface, "name")>>,
                 <<"family",
                   IF IsExc(has) THEN has
                   ELSE IF has.v
                   THEN ForEach(AsList(GetItem(sub_interface, "address-family")),
                                UnitFamilyRecord)
                   ELSE PyStr("")>> >>)

\* entry['subinterfaces']
InterfaceUnits(item) ==
    LET has == In("logical-interface", item)
    IN  IF IsExc(has) THEN has
        ELSE IF has.v THEN ForEach(AsList(GetItem(item, "logical-interface")), UnitRecord)
        ELSE PyList(<<>>)

PoeDefaults ==
    PyDict(<< <<"admin", PyBool(FALSE)>>, <<"operational", PyBool(FALSE)>>,
              <<"max_power", PyBool(FALSE)>>, <<"power_used", PyBool(FALSE)>> >>)

\* entry['poe'] after one pass of the loop over the PoE entries: the pass
\* first sets the defaults, then the values of an entry of the same name
PoePass(poe, name) ==
    LET port == GetItem(poe, "interface-name")
    IN  IF IsExc(port) THEN port
        ELSE IF port # name THEN PoeDefaults
        ELSE Entry(<< <<"admin",
                        LET e == GetItem(poe, "interface-enabled")
                        IN  IF IsExc(e) THEN e ELSE PyBool(e = PyStr("Enabled"))>>,
                      <<"operational",
                        LET e == GetItem(poe, "interface-status")
                        IN  IF IsExc(e) THEN e ELSE PyBool(e = PyStr("on"))>>,
                      <<"max_power", GetItem(poe, "interface-power-limit")>>,
                      <<"power_used", GetItem(poe, "interface-power")>> >>)

\* a PoE check that does not look for a PoE payload
InterfacePoe_unconditional(self, name) == << <<"poe", PoeDefaults>> >>

\* the pairs the PoE check adds to the entry: none without a PoE payload or
\* without a pass, else what the last pass left
InterfacePoe(self, name) ==
    LET poe == Attr(self, "poe")
        items == Iter(Path(poe, <<"poe", "interface-information">>))
        passes == [i \in 1..Len(items.v) |-> PoePass(items.v[i], name)]
    IN  IF IsNone(poe) THEN <<>>
        ELSE IF IsExc(items) THEN << <<"poe", items>> >>
        ELSE IF AnyExc(passes) THEN << <<"poe", FirstExc(passes)>> >>
        ELSE IF passes = <<>> THEN <<>>
        ELSE << <<"poe", passes[Len(passes)]>> >>

\* one pass of the loop over the physical interfaces
InterfaceRecord(self, item) ==
    LET name == GetItem(item, "name")
    IN  IF IsExc(name) THEN name
        ELSE IF name.t = "str" /\ name.v \in InternalInterfaces THEN Skip
        ELSE Entry(<< <<"name", name>>,
                      <<"mac", InterfaceMac(item)>>,
                      <<"speed", GetOr(item, "speed", PyStr(""))>>,
                      <<"description", GetOr(item, "description", PyStr(""))>>,
                      <<"family", InterfaceFamily(item)>>,
                      <<"address", InterfaceAddress(item, InterfaceFamily(item))>>,
                      <<"counters", InterfaceCounters(item)>>,
                      <<"subinterfaces", InterfaceUnits(item)>> >>
                   \o InterfacePoe(self, name))

\* Interfaces.interfaces
Interfaces_interfaces(self) ==
    LET items == Iter(Path(Attr(self, "interface_list"),
                           <<"interface-information", "physical-interface">>))
    IN  Entry(<< <<"interfaces",
                   IF IsExc(items) THEN items
                   ELSE Collect([i \in 1..Len(items.v) |->
                                    InterfaceRecord(self, items.v[i])])>> >>)

----------------------------------------------------------------------------
(* device.py *)

RADIUS_TIMEOUT == 5
RADIUS_RETRIES == 3
RADIUS_ACCPORT == 1813

ServerAddress == <<"192.0.2.1", "192.0.2.2">>

\* the up_time strings of the master routing engine
UpTimes ==
    <<"5 days, 3 hours, 2 minutes, 1 seconds",
      "20 minutes, 30 seconds",
      "1 day, 1 hour, 1 minute, 1 second",
      "4 seconds">>

\* dev.facts with the up_time n reported by the routing engine re, or by
\* none of the engines the code looks at
DeviceFacts(re, n) ==
    PyDict(<< <<"hostname", PyStr("sw1")>>,
              <<"serialnumber", PyStr("JN0001")>>,
              <<"model", PyStr("EX2300-C-12P")>>,
              <<"version", PyStr("21.4R3.15")>>,
              <<"RE0", IF re = "RE0" THEN PyDict(<< <<"up_time", PyStr(UpTimes[n])>> >>)
                       ELSE PyNone>>,
              <<"RE1", IF re = "RE1" THEN PyDict(<< <<"up_time", PyStr(UpTimes[n])>> >>)
                       ELSE PyNone>>,
              <<"RE2", PyNone>> >>)

FactsReplies ==
    {DeviceFacts("RE0", n) : n \in 1..Len(UpTimes)}
    \cup {DeviceFacts("RE1", 2), DeviceFacts("none", 1)}

\* one feature of a license: with an end date, or permanent
LicenseFeature(n) ==
    PyDict(<< <<"name", PyStr(<<"idp-sig", "appid-sig", "av_key">>[n])>>,
              <<"validity-information",
                IF n = 3 THEN PyDict(<< <<"validity-type", PyStr("permanent")>> >>)
                ELSE PyDict(<< <<"validity-type", PyStr("date-based")>>,
                               <<"end-date",
                                 PyDict(<< <<"#text",
                                     PyStr(<<"2027-01-01", "2028-06-30">>[n])>> >>)>> >>)>> >>)

License(n, features) ==
    PyDict(<< <<"name", PyStr(<<"JUNOS000001", "JUNOS000002">>[n])>>,
              <<"feature-block",
                PyDict(Repeated("feature",
                    [i \in DOMAIN features |-> LicenseFeature(features[i])]))>> >>)

LicenseInformation(licenses) ==
    PyDict(<< <<"license-information", PyDict(Repeated("license", licenses))>> >>)

NoLicenses ==
    PyDict(<< <<"license-information",
                PyDict(<< <<"no-licenses-installed", PyNone>> >>)>> >>)

\* the replies to get-license-information
LicenseReplies ==
    {NoLicenses,
     LicenseInformation(<<License(1, <<1>>)>>),
     LicenseInformation(<<License(1, <<1, 2>>), License(2, <<2>>)>>),
     LicenseInformation(<<License(2, <<3>>)>>),
     RpcError}

RadiusServer(n, full) ==
    PyDict(<< <<"name", PyStr(ServerAddress[n])>>, <<"port", PyStr("1812")>> >>
        \o (IF full THEN << <<"accounting-port", PyStr("1646")>>,
                            <<"timeout", PyStr("10")>>,
                            <<"retry", PyStr("2")>>,
                            <<"source-address", PyStr("192.0.2.254")>> >>
            ELSE <<>>))

SyslogContents(n) ==
    PyDict(<< <<"name", PyStr(<<"any", "authorization">>[n])>>,
              <<(<<"notice", "info">>[n]), PyNone>> >>)

SyslogHost(n, several, full) ==
    PyDict(<< <<"name", PyStr(ServerAddress[n])>>,
              <<"contents", IF several THEN PyList(<<SyslogContents(1), SyslogContents(2)>>)
                            ELSE SyslogContents(1)>> >>
        \o (IF full THEN << <<"source-address", PyStr("192.0.2.254")>>,
                            <<"log-prefix", PyStr("sw1")>> >>
            ELSE <<>>))

NtpServer(n, extra) ==
    PyDict(<< <<"name", PyStr(ServerAddress[n])>> >>
        \o (CASE extra = "prefer" -> << <<"prefer", PyNone>> >>
              [] extra = "routing-instance" -> << <<"routing-instance", PyStr("mgmt")>> >>
              [] OTHER -> <<>>))

NameServer(n, full) ==
    PyDict(<< <<"name", PyStr(ServerAddress[n])>> >>
        \o (IF full THEN << <<"source-address", PyStr("192.0.2.254")>> >> ELSE <<>>))

SnmpCommunity(n) ==
    PyDict(<< <<"name", PyStr(<<"public", "private">>[n])>> >>
        \o (IF n = 1
            THEN << <<"authorization", PyStr("read-only")>>,
                    <<"clients", PyList(<< PyDict(<< <<"name", PyStr("192.0.2.0/24")>> >>),
                                           PyDict(<< <<"name", PyStr("198.51.100.0/24")>> >>) >>)>> >>
            ELSE <<>>))

\* the configurations the filter of Device.__enter__ selects: every element
\* once; every element several times; no RADIUS and no SNMP configuration
DeviceConfig(n) ==
    PyDict(<< <<"configuration", PyDict(
        CASE n = 1 ->
               << <<"system", PyDict(<<
                      <<"radius-server", RadiusServer(1, FALSE)>>,
                      <<"syslog", PyDict(<< <<"host", SyslogHost(1, TRUE, FALSE)>> >>)>>,
                      <<"ntp", PyDict(<< <<"server", NtpServer(1, "none")>> >>)>>,
                      <<"name-server", NameServer(1, FALSE)>>,
                      <<"domain-name", PyStr("example.net")>> >>)>>,
                  <<"snmp", PyDict(<< <<"name", PyStr("sw1")>>,
                                      <<"community", SnmpCommunity(2)>> >>)>> >>
          [] n = 2 ->
               << <<"system", PyDict(<<
                      <<"radius-server", PyList(<<RadiusServer(1, TRUE),
                                                  RadiusServer(2, FALSE)>>)>>,
                      <<"syslog", PyDict(<< <<"host",
                            PyList(<<SyslogHost(1, FALSE, TRUE),
                                     SyslogHost(2, TRUE, FALSE)>>)>> >>)>>,
                      <<"ntp", PyDict(<< <<"server",
                            PyList(<<NtpServer(1, "prefer"),
                                     NtpServer(2, "routing-instance")>>)>> >>)>>,
                      <<"name-server", PyList(<<NameServer(1, TRUE),
                                                NameServer(2, FALSE)>>)>> >>)>>,
                  <<"snmp", PyDict(<< <<"name", PyStr("sw1")>>,
                                      <<"contact", PyStr("noc")>>,
                                      <<"description", PyStr("access switch")>>,
                                      <<"community", PyList(<<SnmpCommunity(1),
                                                              SnmpCommunity(2)>>)>> >>)>> >>
          [] OTHER ->
               << <<"system", PyDict(<<
                      <<"syslog", PyDict(<< <<"host", SyslogHost(1, FALSE, FALSE)>> >>)>>,
                      <<"ntp", PyDict(<< <<"server", NtpServer(1, "prefer")>> >>)>>,
                      <<"name-server", NameServer(1, FALSE)>> >>)>> >>)>> >>)

DeviceConfigReplies == {DeviceConfig(n) : n \in 1..3} \cup {RpcError}

\* the master routing engine the chain of tests selects
MasterRe(facts) ==
    LET re0 == GetItem(facts, "RE0")
        re1 == GetItem(facts, "RE1")
        re2 == GetItem(facts, "RE2")
    IN  IF IsExc(re0) THEN re0
        ELSE IF ~IsNone(re0) THEN PyStr("RE0")
        ELSE IF IsExc(re1) THEN re1
        ELSE IF ~IsNone(re1) THEN PyStr("RE1")
        ELSE IF IsExc(re2) THEN re2
        ELSE IF ~IsNone(re2) THEN PyStr("RE2")
        ELSE PyStr("RE3")

UptimeUnits == <<"days", "hours", "minutes", "seconds">>

\* the branch of the if/elif chain an item of the uptime takes: 0 for none
UptimeBranch(item) ==
    IF \E u \in 1..Len(UptimeUnits) : Contains(UptimeUnits[u], item)
    THEN CHOOSE u \in 1..Len(UptimeUnits) :
            /\ Contains(UptimeUnits[u], item)
            /\ \A w \in 1..(u - 1) : ~Contains(UptimeUnits[w], item)
    ELSE 0

\* days, hours, minutes or seconds after the loop over the items: 0, or
\* item.split(" ")[0] of the last item that took the branch u
UptimeComponent(items, u) ==
    LET taken == SelectSeq(items, LAMBDA item : UptimeBranch(item) = u)
    IN  IF taken = <<>> THEN PyInt(0)
        ELSE PyStr(Split(taken[Len(taken)], " ")[1])

\* the uptime in seconds
UptimeSeconds(up_time) ==
    IF IsExc(up_time) THEN up_time
    ELSE IF up_time.t # "str" THEN Exc("AttributeError")
    ELSE LET items == Split(up_time.v, ", ")
             parts == [u \in 1..4 |-> ToInt(UptimeComponent(items, u))]
         IN  IF AnyExc(parts) THEN FirstExc(parts)
             ELSE PyInt(parts[1].v * 86400 + parts[2].v * 3600
                        + parts[3].v * 60 + parts[4].v)

DeviceFilter ==
    <<"system/radius-server", "system/syslog/host", "system/ntp",
      "system/name-server", "system/domain-name", "snmp">>

\* the body of the 'with' block of Device.__enter__
Device_enter(self, d, facts, license, config) ==
    IF d = "none" THEN [me |-> self, log |-> <<>>, out |-> "return"]
    ELSE LET attrs == ("config" :> get_config(d, config))
                         @@ [self EXCEPT !["raw_license"] = rpc_commands(d, license)]
             calls == RpcCall(d, "get-license-information")
                      \o ConfigCall(d, DeviceFilter)
             master_re == MasterRe(facts)
             uptime == IF IsExc(master_re) THEN master_re
                       ELSE UptimeSeconds(Path(facts, <<master_re.v, "up_time">>))
             rest == <<uptime, GetItem(facts, "hostname"),
                       GetItem(facts, "serialnumber"), GetItem(facts, "model"),
                       GetItem(facts, "version")>>
         IN  IF AnyExc(rest)
             THEN [me |-> attrs, log |-> calls, out |-> FirstExc(rest).v]
             ELSE [me |-> [attrs EXCEPT !["hostname"] = rest[2],
                                           !["serial"] = rest[3],
                                           !["model"] = rest[4],
                                           !["version"] = rest[5],
                                           !["uptime"] = rest[1]],
                   log |-> calls, out |-> "normal"]

\* Device.facts
Device_facts(self) ==
    Entry(<< <<"hostname", Attr(self, "hostname")>>,
             <<"serial", Attr(self, "serial")>>,
             <<"uptime", Attr(self, "uptime")>>,
             <<"model", Attr(self, "model")>>,
             <<"version", Attr(self, "version")>> >>)

\* one pass of the loop over the features of a licence
FeaturePass(lic_feature) ==
    Entry(<< <<"name", GetItem(lic_feature, "name")>>,
             <<"expiry", Path(lic_feature,
                              <<"validity-information", "end-date", "#text">>)>> >>)

\* LicenceRecord with the expiry of the first feature instead of the last
LicenceRecord_first(licence) ==
    LET lic_id == GetItem(licence, "name")
        feature == Path(licence, <<"feature-block", "feature">>)
        features == ForEach(AsList(feature), FeaturePass)
        names == PyList([i \in 1..Len(features.v) |-> Lookup(features.v[i], "name")])
    IN  IF IsExc(lic_id) THEN lic_id
        ELSE IF IsExc(features) THEN features
        ELSE PyDict(<< <<"lic_id", lic_id>>, <<"name", names>> >>
                 \o (IF features.v = <<>> THEN <<>>
                     ELSE << <<"expiry", Lookup(features.v[1], "expiry")>> >>))

\* one pass of the loop over the licences
LicenceRecord(licence) ==
    LET lic_id == GetItem(licence, "name")
        feature == Path(licence, <<"feature-block", "feature">>)
        features == ForEach(AsList(feature), FeaturePass)
        names == PyList([i \in 1..Len(features.v) |-> Lookup(features.v[i], "name")])
    IN  IF IsExc(lic_id) THEN lic_id
        ELSE IF IsExc(features) THEN features
        ELSE PyDict(<< <<"lic_id", lic_id>>, <<"name", names>> >>
                 \o (IF features.v = <<>> THEN <<>>
                     ELSE << <<"expiry",
                               Lookup(features.v[Len(features.v)], "expiry")>> >>))

\* Device.license
Device_license(self) ==
    LET information == GetItem(Attr(self, "raw_license"), "license-information")
        none == In("no-licenses-installed", information)
    IN  IF IsExc(none) THEN none
        ELSE IF none.v
        THEN PyDict(<< <<"licenses",
                         PyList(<< PyDict(<< <<"lic_id", PyNone>> >>) >>)>> >>)
        ELSE Entry(<< <<"licenses",
                        ForEach(AsList(GetItem(information, "license")),
                                LicenceRecord)>> >>)

\* RadiusRecord with the authentication port as the default of the accounting
\* port
RadiusRecord_authport(server) ==
    Entry(<< <<"server", GetItem(server, "name")>>,
             <<"port", GetItem(server, "port")>>,
             <<"acc_port", GetOr(server, "accounting-port", PyInt(1812))>>,
             <<"timeout", GetOr(server, "timeout", PyInt(RADIUS_TIMEOUT))>>,
             <<"retry", GetOr(server, "retry", PyInt(RADIUS_RETRIES))>>,
             <<"source", GetOr(server, "source-address", PyStr(""))>> >>)

\* one pass of the loop over the RADIUS servers
RadiusRecord(server) ==
    Entry(<< <<"server", GetItem(server, "name")>>,
             <<"port", GetItem(server, "port")>>,
             <<"acc_port", GetOr(server, "accounting-port", PyInt(RADIUS_ACCPORT))>>,
             <<"timeout", GetOr(server, "timeout", PyInt(RADIUS_TIMEOUT))>>,
             <<"retry", GetOr(server, "retry", PyInt(RADIUS_RETRIES))>>,
             <<"source", GetOr(server, "source-address", PyStr(""))>> >>)

\* Device.radius
Device_radius(self) ==
    Entry(<< <<"radius-servers",
               ForEach(AsList(Path(Attr(self, "config"),
                                   <<"configuration", "system", "radius-server">>)),
                       RadiusRecord)>> >>)

\* [key for key in x]
KeyList(x) == Iter(x)

\* x[n] of a list, counting from 0
Index(x, n) ==
    IF IsExc(x) THEN x
    ELSE IF IsList(x) THEN (IF n < Len(x.v) THEN x.v[n + 1] ELSE Exc("IndexError"))
    ELSE IF IsDict(x) THEN Exc("KeyError")
    ELSE Exc("TypeError")

\* one pass of the loop over the syslog hosts
SyslogRecord(server) ==
    LET contents == GetItem(server, "contents")
        several == ~IsExc(contents) /\ IsList(contents)
    IN  Entry(<< <<"server", GetItem(server, "name")>>,
                 <<"facilities",
                   IF several THEN GetItem(Index(contents, 0), "name")
                   ELSE GetItem(contents, "name")>>,
                 <<"level",
                   IF several THEN Index(KeyList(Index(contents, 0)), 1)
                   ELSE KeyList(contents)>>,
                 <<"source", GetOr(server, "source-address", PyStr(""))>>,
                 <<"prefix", GetOr(server, "log-prefix", PyStr(""))>> >>)

\* Device.syslog
Device_syslog(self) ==
    Entry(<< <<"syslog-servers",
               ForEach(AsList(Path(Attr(self, "config"),
                                   <<"configuration", "system", "syslog", "host">>)),
                       SyslogRecord)>> >>)

\* one pass of the loop over the NTP servers
NtpRecord(server) ==
    LET instance == In("routing-instance", server)
    IN  IF IsExc(instance) THEN instance
        ELSE IF instance.v THEN Skip
        ELSE Entry(<< <<"server", GetItem(server, "name")>>,
                      <<"prefer", GetOr(server, "prefer", PyBool(FALSE))>> >>)

\* Device.ntp
Device_ntp(self) ==
    Entry(<< <<"ntp-servers",
               ForEach(AsList(Path(Attr(self, "config"),
                                   <<"configuration", "system", "ntp", "server">>)),
                       NtpRecord)>> >>)

\* one pass of the loop over the name servers
DnsRecord(server) ==
    Entry(<< <<"server", GetItem(server, "name")>>,
             <<"source", GetOr(server, "source-address", PyBool(FALSE))>> >>)

\* Device.dns
Device_dns(self) ==
    LET system == Path(Attr(self, "config"), <<"configuration", "system">>)
    IN  Entry(<< <<"dns-servers",
                   Entry(<< <<"domain", GetOr(system, "domain-name", PyStr(""))>>,
                            <<"servers",
                              ForEach(AsList(GetItem(system, "name-server")),
                                      DnsRecord)>> >>)>> >>)

\* one pass of the loop over the SNMP communities
SnmpRecord(server) ==
    LET clients == In("clients", server)
        Name(client) == GetItem(client, "name")
    IN  Entry(<< <<"community", GetItem(server, "name")>>,
                 <<"access", GetOr(server, "authorization", PyStr(""))>>,
                 <<"clients",
                   IF IsExc(clients) THEN clients
                   ELSE IF clients.v THEN ForEach(GetItem(server, "clients"), Name)
                   ELSE PyList(<<>>)>> >>)

\* Device.snmp: the append follows the loop, so the list gets the entry of
\* the last pass
Device_snmp(self) ==
    LET configuration == GetItem(Attr(self, "config"), "configuration")
        configured == In("snmp", configuration)
        snmp == GetItem(configuration, "snmp")
        passes == ForEach(AsList(GetItem(snmp, "community")), SnmpRecord)
        fields == <<GetOr(snmp, "name", PyStr("")),
                    GetOr(snmp, "contact", PyStr("")),
                    GetOr(snmp, "description", PyStr("")),
                    IF ~IsExc(passes) /\ passes.v = <<>>
                    THEN Exc("UnboundLocalError") ELSE passes>>
    IN  IF IsExc(configured) THEN configured
        ELSE IF ~configured.v
        THEN PyDict(<< <<"snmp", PyDict(<< <<"communities", PyList(<<>>)>> >>)>> >>)
        ELSE IF AnyExc(fields) THEN FirstExc(fields)
        ELSE PyDict(<< <<"snmp",
                 PyDict(<< <<"communities", PyList(<<passes.v[Len(passes.v)]>>)>>,
                           <<"name", fields[1]>>,
                           <<"contact", fields[2]>>,
                           <<"description", fields[3]>> >>)>> >>)

----------------------------------------------------------------------------
(* junos.py: the dispatcher functions the XML-RPC server registers *)

Dispatchers ==
    {"device_info", "device_hardware", "device_interfaces", "device_lldp",
     "device_vlans", "device_mac", "device_routing", "device_ospf"}

\* the extractor class each dispatcher instantiates
ClassOf(d) ==
    CASE d = "device_info" -> "Device"
      [] d = "device_hardware" -> "Hardware"
      [] d = "device_interfaces" -> "Interfaces"
      [] d = "device_lldp" -> "Lldp"
      [] d = "device_vlans" -> "Vlan"
      [] d = "device_mac" -> "Mac"
      [] d = "device_routing" -> "Routing"
      [] d = "device_ospf" -> "Ospf"
      [] OTHER -> "none"

\* the extractor methods a dispatcher calls, in order; the first one is the
\* call inside its try block
Methods(d) ==
    CASE d = "device_info" ->
            <<"Device.facts", "Device.license", "Device.radius", "Device.syslog",
              "Device.ntp", "Device.dns", "Device.snmp">>
      [] d = "device_hardware" ->
            <<"Hardware.cpu", "Hardware.memory", "Hardware.disk",
              "Hardware.temperature", "Hardware.fan">>
      [] d = "device_interfaces" -> <<"Interfaces.interfaces">>
      [] d = "device_lldp" -> <<"Lldp.interfaces">>
      [] d = "device_vlans" -> <<"Vlan.vlans">>
      [] d = "device_mac" -> <<"Mac.mac">>
      [] d = "device_routing" -> <<"Routing.routing_table">>
      [] d = "device_ospf" ->
            <<"Ospf.ospf", "Ospf.areas", "Ospf.neighbours", "Ospf.interfaces">>
      [] OTHER -> <<>>

\* the dispatchers that collect several extractors into info; the others
\* return json.dumps of their one extractor from inside the try block
Aggregated == {"device_info", "device_hardware", "device_ospf"}

\* the attributes __init__ sets
InitAttrs(class, host) ==
    ("host" :> PyStr(host)) @@
    CASE class = "Device" ->
            [a \in {"raw_license", "raw_config", "hostname", "serial", "model",
                    "version", "uptime"} |-> PyNone]
      [] class = "Hardware" -> [a \in {"re", "storage", "fans"} |-> PyNone]
      [] class = "Interfaces" -> [a \in {"interface_list", "poe"} |-> PyNone]
      [] class = "Lldp" -> ("lldp_interface" :> PyNone)
      [] class = "Vlan" -> ("config" :> PyNone)
      [] class = "Mac" -> ("mac_table" :> PyNone)
      [] class = "Routing" -> ("routing" :> PyNone)
      [] class = "Ospf" ->
            [a \in {"config", "neighbour_info", "interface_info"} |-> PyNone]

\* my_device.<method>() on the extractor object
Extract(m, self) ==
    CASE m = "Device.facts" -> Device_facts(self)
      [] m = "Device.license" -> Device_license(self)
      [] m = "Device.radius" -> Device_radius(self)
      [] m = "Device.syslog" -> Device_syslog(self)
      [] m = "Device.ntp" -> Device_ntp(self)
      [] m = "Device.dns" -> Device_dns(self)
      [] m = "Device.snmp" -> Device_snmp(self)
      [] m = "Hardware.cpu" -> Hardware_cpu(self)
      [] m = "Hardware.memory" -> Hardware_memory(self)
      [] m = "Hardware.disk" -> Hardware_disk(self)
      [] m = "Hardware.temperature" -> Hardware_temperature(self)
      [] m = "Hardware.fan" -> Hardware_fan(self)
      [] m = "Interfaces.interfaces" -> Interfaces_interfaces(self)
      [] m = "Lldp.interfaces" -> Lldp_interfaces(self)
      [] m = "Vlan.vlans" -> Vlan_vlans(self)
      [] m = "Mac.mac" -> Mac_mac(self)
      [] m = "Routing.routing_table" -> Routing_routing_table(self)
      [] m = "Ospf.ospf" -> Ospf_ospf(self)
      [] m = "Ospf.areas" -> Ospf_areas(self)
      [] m = "Ospf.neighbours" -> Ospf_neighbours(self)
      [] m = "Ospf.interfaces" -> Ospf_interfaces(self)

RECURSIVE Join(_, _)
\* sep.join(texts)
Join(texts, sep) ==
    IF texts = <<>> THEN ""
    ELSE IF Len(texts) = 1 THEN texts[1]
    ELSE texts[1] \o sep \o Join(Tail(texts), sep)

RECURSIVE JsonText(_)
\* the text json.dumps writes for a value, with its default separators
JsonText(x) ==
    CASE x.t = "none" -> "null"
      [] x.t = "bool" -> IF x.v THEN "true" ELSE "false"
      [] x.t = "int" -> ToString(x.v)
      [] x.t = "float" -> x.v
      [] x.t = "str" -> "\"" \o x.v \o "\""
      [] x.t = "list" -> "[" \o Join([i \in 1..Len(x.v) |-> JsonText(x.v[i])], ", ") \o "]"
      [] x.t = "dict" ->
            "{" \o Join([i \in 1..Len(x.v) |->
                            "\"" \o x.v[i][1] \o "\": " \o JsonText(x.v[i][2])], ", ")
                \o "}"

\* json.dumps(x)
JsonDumps(x) == PyStr(JsonText(x))

\* the failure envelope of the except branches
Envelope(host) ==
    JsonDumps(PyDict(<<
        <<"status", PyStr("Juniper plugin error")>>,
        <<"error", PyStr("There was an error connecting to " \o host)>> >>))

Returned(x) == [kind |-> "return", v |-> x]
Raised(e) == [kind |-> "raise", v |-> Exc(e)]
NoResult == [kind |-> "none", v |-> PyNone]

----------------------------------------------------------------------------
(* The server: one request at a time (SimpleXMLRPCServer.serve_forever) *)

Hosts == {"sw1"}

Init ==
    /\ pc = "idle"
    /\ req = "none"
    /\ dev = "none"
    /\ me = <<>>
    /\ blk = "none"
    /\ my_device = "none"
    /\ idx = 0
    /\ info = PyDict(<<>>)
    /\ ran = <<>>
    /\ result = NoResult
    /\ log = <<>>
    /\ kwargs = <<>>
    /\ fetched = PyNone
    /\ dev_facts = PyNone

\* a client calls a registered function: the dispatcher constructs its
\* extractor object and enters its 'with' statement
Request ==
    /\ pc = "idle"
    /\ \E d \in Dispatchers, host \in Hosts :
        /\ req' = d
        /\ me' = InitAttrs(ClassOf(d), host)
    /\ pc' = "connect"
    /\ dev' = "none"
    /\ blk' = "none"
    /\ my_device' = "none"
    /\ idx' = 1
    /\ info' = PyDict(<<>>)
    /\ ran' = <<>>
    /\ result' = NoResult
    /\ log' = <<>>
    /\ dev_facts' = PyNone
    /\ UNCHANGED <<kwargs, fetched>>

\* the extractor's __enter__ opens the session: with netconf.Netconf(...)
NetconfEnter ==
    /\ pc = "connect"
    /\ \E opened \in BOOLEAN : dev' = Netconf_enter(opened)
    /\ pc' = "fetch"
    /\ UNCHANGED <<req, me, blk, my_device, idx, info, ran, result, log,
                   kwargs, fetched, dev_facts>>

\* the block of the 'with' statement has run and left r; read is the facts
\* of the device when the block reads them on an open session, else None
Fetched(r, read) ==
    /\ me' = r.me
    /\ log' = log \o r.log
    /\ blk' = r.out
    /\ pc' = "exit"
    /\ dev_facts' = IF dev = "none" THEN PyNone ELSE read
    /\ UNCHANGED <<req, dev, my_device, idx, info, ran, result, kwargs, fetched>>

DeviceFetch ==
    /\ pc = "fetch" /\ ClassOf(req) = "Device"
    /\ \E facts \in FactsReplies, license \in LicenseReplies,
          config \in DeviceConfigReplies :
            Fetched(Device_enter(me, dev, facts, license, config), facts)

HardwareFetch ==
    /\ pc = "fetch" /\ ClassOf(req) = "Hardware"
    /\ \E model \in Models, engines \in RouteEngineReplies,
          storage \in StorageReplies, environment \in EnvironmentReplies,
          fans \in FanReplies :
            Fetched(Hardware_enter(me, dev, model, engines, storage,
                                   environment, fans), ModelFact(model))

InterfacesFetch ==
    /\ pc = "fetch" /\ ClassOf(req) = "Interfaces"
    /\ \E model \in Models, interfaces \in InterfaceReplies, poe \in PoeReplies :
            Fetched(Interfaces_enter(me, dev, model, interfaces, poe),
                    ModelFact(model))

LldpFetch ==
    /\ pc = "fetch" /\ ClassOf(req) = "Lldp"
    /\ \E detail \in LldpReplies, plain \in LldpReplies :
            Fetched(Lldp_enter(me, dev, detail, plain), PyNone)

VlanFetch ==
    /\ pc = "fetch" /\ ClassOf(req) = "Vlan"
    /\ \E answer \in VlanReplies : Fetched(Vlan_enter(me, dev, answer), PyNone)

MacFetch ==
    /\ pc = "fetch" /\ ClassOf(req) = "Mac"
    /\ \E answer \in MacReplies : Fetched(Mac_enter(me, dev, answer), PyNone)

RoutingFetch ==
    /\ pc = "fetch" /\ ClassOf(req) = "Routing"
    /\ \E answer \in RoutingReplies : Fetched(Routing_enter(me, dev, answer), PyNone)

OspfFetch ==
    /\ pc = "fetch" /\ ClassOf(req) = "Ospf"
    /\ \E overview \in OverviewReplies, config \in OspfConfigReplies,
          neighbour \in NeighborReplies, interface \in OspfInterfaceReplies :
            Fetched(Ospf_enter(me, dev, overview, config, neighbour, interface), PyNone)

\* the 'with' statement of __enter__ is left: Netconf.__exit__ runs, and
\* __enter__ returns self, returns None (the early return) or lets the
\* exception of its block through to the dispatcher's caller
NetconfExit ==
    /\ pc = "exit"
    /\ dev' = Netconf_exit(dev, blk \notin {"normal", "return"})
    /\ IF blk \in {"normal", "return"}
       THEN /\ my_device' = IF blk = "return" THEN "None" ELSE "self"
            /\ pc' = "body"
            /\ UNCHANGED result
       ELSE /\ result' = Raised(blk)
            /\ pc' = "done"
            /\ UNCHANGED my_device
    /\ UNCHANGED <<req, me, blk, idx, info, ran, log, kwargs, fetched, dev_facts>>

\* Call with extractor methods that consume the payloads they read
Call_consuming ==
    /\ pc = "body"
    /\ LET m == Methods(req)[idx]
           r == IF my_device = "None" THEN Exc("AttributeError")
                ELSE Extract(m, me)
           last == idx = Len(Methods(req))
       IN  /\ ran' = Append(ran, m)
           /\ IF IsExc(r)
              THEN \* inside the try block the envelope is returned; outside
                   \* it the exception leaves the dispatcher
                   /\ result' = IF idx = 1 THEN Returned(Envelope(me["host"].v))
                                 ELSE Raised(r.v)
                   /\ pc' = "done"
                   /\ UNCHANGED <<idx, info>>
              ELSE IF req \in Aggregated
              THEN /\ info' = Update(info, r)
                   /\ idx' = idx + 1
                   /\ result' = IF last THEN Returned(JsonDumps(Update(info, r)))
                                 ELSE result
                   /\ pc' = IF last THEN "done" ELSE "body"
              ELSE /\ result' = Returned(JsonDumps(r))
                   /\ pc' = "done"
                   /\ UNCHANGED <<idx, info>>
    /\ me' = [a \in DOMAIN me |-> IF a = "host" THEN me[a] ELSE PyNone]
    /\ UNCHANGED <<req, dev, blk, my_device, log, kwargs, fetched, dev_facts>>

\* the next extractor call of the dispatcher's body
Call ==
    /\ pc = "body"
    /\ LET m == Methods(req)[idx]
           r == IF my_device = "None" THEN Exc("AttributeError")
                ELSE Extract(m, me)
           last == idx = Len(Methods(req))
       IN  /\ ran' = Append(ran, m)
           /\ IF IsExc(r)
              THEN \* inside the try block the envelope is returned; outside
                   \* it the exception leaves the dispatcher
                   /\ result' = IF idx = 1 THEN Returned(Envelope(me["host"].v))
                                 ELSE Raised(r.v)
                   /\ pc' = "done"
                   /\ UNCHANGED <<idx, info>>
              ELSE IF req \in Aggregated
              THEN /\ info' = Update(info, r)
                   /\ idx' = idx + 1
                   /\ result' = IF last THEN Returned(JsonDumps(Update(info, r)))
                                 ELSE result
                   /\ pc' = IF last THEN "done" ELSE "body"
              ELSE /\ result' = Returned(JsonDumps(r))
                   /\ pc' = "done"
                   /\ UNCHANGED <<idx, info>>
    /\ UNCHANGED <<req, dev, me, blk, my_device, log, kwargs, fetched, dev_facts>>

\* the server sends the response and waits for the next request
Respond ==
    /\ pc = "done"
    /\ pc' = "idle"
    /\ UNCHANGED <<req, dev, me, blk, my_device, idx, info, ran, result, log,
                   kwargs, fetched, dev_facts>>

Next ==
    \/ Request
    \/ NetconfEnter
    \/ DeviceFetch
    \/ HardwareFetch
    \/ InterfacesFetch
    \/ LldpFetch
    \/ VlanFetch
    \/ MacFetch
    \/ RoutingFetch
    \/ OspfFetch
    \/ NetconfExit
    \/ Call
    \/ Respond

Spec == Init /\ [][Next]_vars

----------------------------------------------------------------------------
(* Netconf.get_config on its own: a caller opens a session and fetches the   *)
(* configuration with a filter list of its choice                            *)

\* the most '/'-separated segments of a specifier, and the most specifiers
\* of a filter list
MaxSegments == 2
MaxSpecifiers == 2

\* the segments specifiers are made of; the empty one gives 'system/',
\* '/system', 'system//ntp' and the like
Segments == {"system", "ntp", ""}

Specifiers ==
    {Join(segments, "/") :
        segments \in UNION {[1..n -> Segments] : n \in 1..MaxSegments}}

FilterLists == UNION {[1..n -> Specifiers] : n \in 0..MaxSpecifiers}

\* what the device answers to the fetch
FilterReplies == {PyDict(<< <<"configuration", PyNone>> >>), RpcError}

InitFilter ==
    /\ pc = "caller"
    /\ kwargs \in FilterLists
    /\ req = "none"
    /\ dev = "none"
    /\ me = <<>>
    /\ blk = "none"
    /\ my_device = "none"
    /\ idx = 0
    /\ info = PyDict(<<>>)
    /\ ran = <<>>
    /\ result = NoResult
    /\ log = <<>>
    /\ fetched = PyNone
    /\ dev_facts = PyNone

\* with netconf.Netconf(...) as connection
FilterEnter ==
    /\ pc = "caller"
    /\ \E opened \in BOOLEAN : dev' = Netconf_enter(opened)
    /\ pc' = "session"
    /\ UNCHANGED <<req, me, blk, my_device, idx, info, ran, result, log,
                   kwargs, fetched, dev_facts>>

\* connection.get_config(filter=kwargs)
GetConfig ==
    /\ pc = "session"
    /\ \E answer \in FilterReplies : fetched' = get_config(dev, answer)
    /\ log' = log \o ConfigCall(dev, kwargs)
    /\ pc' = "got"
    /\ UNCHANGED <<req, dev, me, blk, my_device, idx, info, ran, result, kwargs,
                   dev_facts>>

\* the 'with' block is left without an exception
FilterExit ==
    /\ pc = "got"
    /\ dev' = Netconf_exit(dev, FALSE)
    /\ pc' = "left"
    /\ UNCHANGED <<req, me, blk, my_device, idx, info, ran, result, log,
                   kwargs, fetched, dev_facts>>

NextFilter ==
    \/ FilterEnter
    \/ GetConfig
    \/ FilterExit

SpecFilter == InitFilter /\ [][NextFilter]_vars

----------------------------------------------------------------------------
(* Properties of the dispatchers and of the session                          *)

\* the request ran in no session: JunosDevice(...).open() raised
NoSession == pc = "done" /\ dev = "none"

\* C1: when the session cannot be opened (dev = None), each of the eight
\* dispatchers returns the failure envelope, and none raises.
C1_NoSessionGivesEnvelope ==
    NoSession =>
        /\ result.kind = "return"
        /\ result.v = Envelope(me["host"].v)

\* a request for the VLANs that ran in no session
C1_Witness ==
    /\ NoSession
    /\ req = "device_vlans"
    /\ ran = <<"Vlan.vlans">>
    /\ result.kind = "return"

\* the dictionary rpc_commands returns when the call raised
IsErrorResult(x) == IsDict(x) /\ Keys(x) = <<"status", "error">>

\* a call made on the open session of this request failed
RpcFailed ==
    /\ dev # "none"
    /\ \E a \in DOMAIN me : IsErrorResult(me[a])

\* C2: when a remote procedure call on an open session fails, the request
\* reports the typed failure: it neither returns a successful record nor
\* raises.
C2_RpcFailureGivesFailure ==
    (pc = "done" /\ blk = "normal" /\ RpcFailed) =>
        /\ result.kind = "return"
        /\ result.v = Envelope(me["host"].v)

\* C3: in an aggregated request whose session delivered the extractor object,
\* an extractor that fails aborts only itself: every extractor of the request
\* runs, and the request returns rather than raises.
C3_SiblingsStillRun ==
    (pc = "done" /\ req \in Aggregated /\ my_device = "self") =>
        /\ ran = Methods(req)
        /\ result.kind = "return"

\* C4: once the 'with' block of __enter__ is left, by normal completion, by
\* the early return or by an exception, a session that was opened is closed.
C4_SessionClosedOnEveryExit ==
    pc \in {"body", "done"} => dev # "open"

\* the overview reply of this request carries the "not running" marker
Marker ==
    /\ "overview" \in DOMAIN me
    /\ IsDict(me["overview"])
    /\ HasKey(me["overview"], "output")
    /\ Lookup(me["overview"], "output").t = "str"
    /\ Contains("not running", Lookup(me["overview"], "output").v)

\* the OSPF fetches of this request are over, on an open session
OspfPolled ==
    /\ req = "device_ospf"
    /\ pc \in {"exit", "body", "done"}
    /\ dev # "none"

\* C5: with the marker the poll is unsupported and the overview fetch is the
\* only fetch of the request; without it the poll is supported and the
\* configuration (protocols/ospf), the neighbours and the interfaces are
\* fetched, in that order, after the overview.
C5_OspfGating ==
    OspfPolled =>
        IF Marker
        THEN /\ Attr(me, "supported") = PyBool(FALSE)
             /\ log = << [op |-> "rpc", arg |-> "get-ospf-overview-information"] >>
        ELSE /\ Attr(me, "supported") = PyBool(TRUE)
             /\ log = << [op |-> "rpc", arg |-> "get-ospf-overview-information"],
                         [op |-> "get_config",
                          arg |-> "<configuration><protocols><ospf/></protocols></configuration>"],
                         [op |-> "rpc", arg |-> "get-ospf-neighbor-information"],
                         [op |-> "rpc", arg |-> "get-ospf-interface-information"] >>

\* an OSPF request that found the marker and is answered
C5_Witness ==
    /\ OspfPolled
    /\ pc = "done"
    /\ Marker
    /\ Len(log) = 1
    /\ Len(ran) = 4

\* C6: with the marker, device_ospf succeeds, and 'areas', 'neighbor' and
\* 'interface' are each bound to an empty list, the container the extractors
\* return when OSPF is running.
C6_NotRunningGivesEmptyLists ==
    (OspfPolled /\ pc = "done" /\ Marker) =>
        /\ result.kind = "return"
        /\ result.v # Envelope(me["host"].v)
        /\ \A k \in {"areas", "neighbor", "interface"} :
              HasKey(info, k) /\ Lookup(info, k) = PyList(<<>>)

\* the payload x with the element at the end of the path wrapped in a list
RECURSIVE WrapAt(_, _)
WrapAt(x, path) ==
    IF path = <<>> THEN PyList(<<x>>)
    ELSE PyDict([i \in 1..Len(x.v) |->
                    IF x.v[i][1] = Head(path)
                    THEN <<x.v[i][1], WrapAt(x.v[i][2], Tail(path))>>
                    ELSE x.v[i]])

\* the path leads through the maps of x to an element that is a single map
RECURSIVE SingleAt(_, _)
SingleAt(x, path) ==
    /\ IsDict(x)
    /\ \/ path = <<>>
       \/ /\ HasKey(x, Head(path))
          /\ SingleAt(Lookup(x, Head(path)), Tail(path))

\* the repeatable elements: the extractor that goes through them, the
\* attribute that stores their payload, the path to them
Repeatable ==
    {[method |-> "Device.radius", attr |-> "config",
      path |-> <<"configuration", "system", "radius-server">>],
     [method |-> "Device.syslog", attr |-> "config",
      path |-> <<"configuration", "system", "syslog", "host">>],
     [method |-> "Device.ntp", attr |-> "config",
      path |-> <<"configuration", "system", "ntp", "server">>],
     [method |-> "Device.dns", attr |-> "config",
      path |-> <<"configuration", "system", "name-server">>],
     [method |-> "Device.snmp", attr |-> "config",
      path |-> <<"configuration", "snmp", "community">>],
     [method |-> "Device.license", attr |-> "raw_license",
      path |-> <<"license-information", "license">>],
     [method |-> "Device.license", attr |-> "raw_license",
      path |-> <<"license-information", "license", "feature-block", "feature">>],
     [method |-> "Interfaces.interfaces", attr |-> "interface_list",
      path |-> <<"interface-information", "physical-interface">>],
     [method |-> "Hardware.cpu", attr |-> "re",
      path |-> <<"route-engine-information", "route-engine">>],
     [method |-> "Hardware.memory", attr |-> "re",
      path |-> <<"route-engine-information", "route-engine">>],
     [method |-> "Hardware.temperature", attr |-> "re",
      path |-> <<"route-engine-information", "route-engine">>],
     [method |-> "Hardware.disk", attr |-> "storage",
      path |-> <<"system-storage-information", "filesystem">>],
     [method |-> "Hardware.disk", attr |-> "storage",
      path |-> <<"multi-routing-engine-results", "multi-routing-engine-item">>],
     [method |-> "Mac.mac", attr |-> "mac_table",
      path |-> <<"l2ng-l2ald-rtb-macdb", "l2ng-l2ald-mac-entry-vlan", "l2ng-mac-entry">>],
     [method |-> "Mac.mac", attr |-> "mac_table",
      path |-> <<"ethernet-switching-table-information", "ethernet-switching-table",
                 "mac-table-entry">>],
     [method |-> "Routing.routing_table", attr |-> "routing",
      path |-> <<"route-information", "route-table">>],
     [method |-> "Routing.routing_table", attr |-> "routing",
      path |-> <<"route-information", "route-table", "rt">>],
     [method |-> "Vlan.vlans", attr |-> "config",
      path |-> <<"configuration", "vlans", "vlan">>],
     [method |-> "Ospf.areas", attr |-> "overview",
      path |-> <<"ospf-overview-information", "ospf-overview", "ospf-area-overview">>],
     [method |-> "Ospf.neighbours", attr |-> "neighbour_info",
      path |-> <<"ospf-neighbor-information", "ospf-neighbor">>],
     [method |-> "Ospf.interfaces", attr |-> "interface_info",
      path |-> <<"ospf-interface-information", "ospf-interface">>]}

\* two outcomes of an extractor are the same: the same exception, or values
\* with the same text
Same(a, b) ==
    /\ IsExc(a) = IsExc(b)
    /\ IF IsExc(a) THEN a.v = b.v ELSE JsonText(a) = JsonText(b)

\* C10: an extractor whose repeatable element occurs once, as a single map,
\* yields the record it yields for the same map in a one-element list.
C10_SingleMapAsOneElementList ==
    (pc = "body" /\ my_device = "self") =>
        \A r \in Repeatable :
            ( /\ \E i \in 1..Len(Methods(req)) : Methods(req)[i] = r.method
              /\ r.attr \in DOMAIN me
              /\ SingleAt(me[r.attr], r.path)
              /\ ~IsExc(Extract(r.method, [me EXCEPT ![r.attr] = WrapAt(@, r.path)])) )
            => Same(Extract(r.method, me),
                    Extract(r.method, [me EXCEPT ![r.attr] = WrapAt(@, r.path)]))

----------------------------------------------------------------------------
(* Properties of the filter expression                                      *)

\* the filter this session sent to the device
Sent == log[1].arg

\* get_config has sent a filter on an open session
FilterSent == pc = "got" /\ dev = "open" /\ Len(log) = 1

\* a specifier whose segments are all named
WellFormed(parameter) ==
    \A i \in 1..Len(Split(parameter, "/")) : Split(parameter, "/")[i] # ""

\* the region of a specifier: its last segment as a leaf, inside one element
\* per segment before it
RECURSIVE Region(_)
Region(segments) ==
    IF Len(segments) = 1 THEN "<" \o segments[1] \o "/>"
    ELSE "<" \o Head(segments) \o ">" \o Region(Tail(segments))
         \o "</" \o Head(segments) \o ">"

\* C7: for a list of well-formed specifiers the filter is '<configuration>',
\* one region per specifier in input order with duplicates kept, and
\* '</configuration>'; the empty list gives '<configuration></configuration>'.
C7_FilterIsRegionsInOrder ==
    (FilterSent /\ \A i \in 1..Len(kwargs) : WellFormed(kwargs[i])) =>
        /\ Sent = "<configuration>"
                  \o Join([i \in 1..Len(kwargs) |-> Region(Split(kwargs[i], "/"))], "")
                  \o "</configuration>"
        /\ kwargs = <<>> => Sent = "<configuration></configuration>"

\* a filter sent for the same nested specifier twice
C7_Witness ==
    /\ FilterSent
    /\ kwargs = <<"system/ntp", "system/ntp">>
    /\ Sent = "<configuration><system><ntp/></system>"
              \o "<system><ntp/></system></configuration>"

\* the tags of an expression, each without its '<'
Tags(filter) == Tail(Split(filter, "<"))
IsClosing(tag) == Len(tag) > 0 /\ SubSeq(tag, 1, 1) = "/"
IsLeaf(tag) ==
    ~IsClosing(tag) /\ Len(tag) >= 2 /\ SubSeq(tag, Len(tag) - 1, Len(tag)) = "/>"
TagName(tag) ==
    IF IsClosing(tag) THEN SubSeq(tag, 2, Len(tag) - 1)
    ELSE IF IsLeaf(tag) THEN SubSeq(tag, 1, Len(tag) - 2)
    ELSE SubSeq(tag, 1, Len(tag) - 1)

\* reading the tags in order with the names of the elements that are open:
\* whether every closing tag closes the innermost open element and none
\* stays open, and the number of open elements around each leaf
RECURSIVE Walk(_, _, _)
Walk(tags, open, depths) ==
    IF tags = <<>> THEN [balanced |-> open = <<>>, depths |-> depths]
    ELSE IF IsClosing(Head(tags))
    THEN IF open # <<>> /\ open[Len(open)] = TagName(Head(tags))
         THEN Walk(Tail(tags), SubSeq(open, 1, Len(open) - 1), depths)
         ELSE [balanced |-> FALSE, depths |-> depths]
    ELSE IF IsLeaf(Head(tags))
    THEN Walk(Tail(tags), open, Append(depths, Len(open)))
    ELSE Walk(Tail(tags), Append(open, TagName(Head(tags))), depths)

\* C8: for any specifier list the filter has one self-closing leaf per
\* specifier, the leaf of a specifier with k segments lies at depth k inside
\* the container, and the tags balance.
C8_OneLeafPerSpecifierAtDepth ==
    FilterSent =>
        /\ Walk(Tags(Sent), <<>>, <<>>).balanced
        /\ Walk(Tags(Sent), <<>>, <<>>).depths
              = [i \in 1..Len(kwargs) |-> Len(Split(kwargs[i], "/"))]

\* C9: for a specifier with a trailing slash or an empty segment nothing is
\* sent: no filter with an empty tag name reaches the device.
C9_EmptySegmentRejected ==
    \A i \in 1..Len(log) :
        log[i].op = "get_config" =>
            \A j \in 1..Len(Tags(log[i].arg)) : TagName(Tags(log[i].arg)[j]) # ""

----------------------------------------------------------------------------
(* Properties of the interface records                                      *)

\* device_interfaces is about to call interfaces() on the extractor object
InterfacesPolled == req = "device_interfaces" /\ pc = "body" /\ my_device = "self"

\* the records interfaces() returns for the attributes self; none if it raises
RecordsOf(self) ==
    LET r == Interfaces_interfaces(self)
    IN  IF IsExc(r) THEN <<>> ELSE Lookup(r, "interfaces").v

\* a PoE payload was fetched: the reply of the PoE call, not its failure
PoeFetched == ~IsNone(me["poe"]) /\ ~IsErrorResult(me["poe"])

\* the entries the PoE payload lists
PoeEntries ==
    LET top == Lookup(me["poe"], "poe")
    IN  IF ~IsDict(top) THEN <<>>
        ELSE IF IsList(Lookup(top, "interface-information"))
        THEN Lookup(top, "interface-information").v
        ELSE <<Lookup(top, "interface-information")>>

\* the PoE sub-record of a PoE entry
PoeOf(poe) ==
    PyDict(<< <<"admin", PyBool(Lookup(poe, "interface-enabled") = PyStr("Enabled"))>>,
              <<"operational", PyBool(Lookup(poe, "interface-status") = PyStr("on"))>>,
              <<"max_power", Lookup(poe, "interface-power-limit")>>,
              <<"power_used", Lookup(poe, "interface-power")>> >>)

\* C11: when a PoE payload was fetched, the record of an interface that a PoE
\* entry names has its PoE sub-record from that entry, wherever the entry
\* stands in the PoE list and whatever follows it.
C11_PoeFromMatchingEntry ==
    (InterfacesPolled /\ PoeFetched) =>
        \A i \in 1..Len(RecordsOf(me)) : \A j \in 1..Len(PoeEntries) :
            Lookup(PoeEntries[j], "interface-name") = Lookup(RecordsOf(me)[i], "name")
            => /\ HasKey(RecordsOf(me)[i], "poe")
               /\ JsonText(Lookup(RecordsOf(me)[i], "poe")) = JsonText(PoeOf(PoeEntries[j]))

\* the attributes of the extractor object had no PoE payload been fetched
WithoutPoe == [me EXCEPT !["poe"] = PyNone]

\* C12: when a PoE payload was fetched, interfaces() returns the records it
\* returns without one, each with a PoE sub-record, of all-false defaults if
\* no PoE entry names the interface; also when the payload lists no entry.
C12_EveryRecordHasPoe ==
    (InterfacesPolled /\ PoeFetched) =>
        /\ Len(RecordsOf(me)) = Len(RecordsOf(WithoutPoe))
        /\ \A i \in 1..Len(RecordsOf(me)) :
            /\ HasKey(RecordsOf(me)[i], "poe")
            /\ (\A j \in 1..Len(PoeEntries) :
                    Lookup(PoeEntries[j], "interface-name")
                        # Lookup(RecordsOf(me)[i], "name"))
               => Lookup(RecordsOf(me)[i], "poe") = PoeDefaults

\* the block of Interfaces.__enter__ has run on an open session
InterfacesFetched ==
    req = "device_interfaces" /\ pc \in {"exit", "body", "done"} /\ dev # "none"

\* the PoE status fetch is among the fetches of this request
PoeIssued ==
    \E i \in 1..Len(log) :
        log[i] = [op |-> "rpc", arg |-> "get-poe-interface-information"]

\* the model string has the PoE capability marker
PoeModel == Contains("P", Lookup(dev_facts, "model").v)

\* C13: the PoE fetch is issued only for a model with the PoE marker, and an
\* interface record has a PoE sub-record only if the fetch was issued; for a
\* model without the marker no record has one.
C13_PoeGatedOnModel ==
    InterfacesFetched =>
        /\ PoeIssued => PoeModel
        /\ \A i \in 1..Len(RecordsOf(me)) :
            HasKey(RecordsOf(me)[i], "poe") => (PoeIssued /\ PoeModel)

\* a PoE model whose records carry a PoE sub-record after the PoE fetch
C13_Witness ==
    /\ InterfacesPolled
    /\ PoeModel
    /\ PoeIssued
    /\ \E i \in 1..Len(RecordsOf(me)) : HasKey(RecordsOf(me)[i], "poe")

\* the physical-interface elements of a fetched list that interfaces() does
\* not skip as internal
RawInterfaces ==
    LET top == me["interface_list"]
        items == IF IsDict(top) /\ HasKey(top, "interface-information")
                 THEN Lookup(Lookup(top, "interface-information"), "physical-interface")
                 ELSE PyList(<<>>)
    IN  IF IsList(items)
        THEN SelectSeq(items.v, LAMBDA item : Lookup(item, "name").v \notin InternalInterfaces)
        ELSE <<>>

\* the address of a physical interface: "<ifa-local>/<mask>" for the family
\* inet, with the mask that follows the '/' of ifa-destination
AddressOf(item) ==
    IF /\ HasKey(item, "address-family")
       /\ Lookup(Lookup(item, "address-family"), "address-family-name") = PyStr("inet")
    THEN PyStr(Lookup(Lookup(item, "address-family"), "ifa-local").v \o "/"
               \o Split(Lookup(Lookup(item, "address-family"), "ifa-destination").v,
                        "/")[2])
    ELSE PyStr("")

\* C14: interfaces() returns a record for every physical interface, with the
\* address "<ifa-local>/<mask>" if the interface's family is inet and the
\* empty string otherwise.
C14_InetAddressComposed ==
    InterfacesPolled =>
        /\ Len(RecordsOf(WithoutPoe)) = Len(RawInterfaces)
        /\ \A i \in 1..Len(RecordsOf(WithoutPoe)) :
            Lookup(RecordsOf(WithoutPoe)[i], "address") = AddressOf(RawInterfaces[i])

\* the raw value of a counter of a physical interface, 0 without one
CounterOf(item, name) ==
    IF /\ HasKey(item, "traffic-statistics")
       /\ HasKey(Lookup(item, "traffic-statistics"), name)
    THEN Lookup(Lookup(item, "traffic-statistics"), name)
    ELSE PyInt(0)

CountersOf(item) ==
    PyDict(<< <<"bps_in", CounterOf(item, "input-bps")>>,
              <<"bps_out", CounterOf(item, "output-bps")>>,
              <<"pps_in", CounterOf(item, "input-pps")>>,
              <<"pps_out", CounterOf(item, "output-pps")>> >>)

\* C15: every interface record returned has the counters bps_in, bps_out,
\* pps_in and pps_out, each the raw value or 0 without one, also for an
\* interface without traffic-statistics.
C15_FourCountersDefaultZero ==
    (InterfacesPolled /\ Len(RecordsOf(WithoutPoe)) = Len(RawInterfaces)) =>
        \A i \in 1..Len(RawInterfaces) :
            JsonText(Lookup(RecordsOf(WithoutPoe)[i], "counters"))
                = JsonText(CountersOf(RawInterfaces[i]))

----------------------------------------------------------------------------
(* Properties of the VLAN records                                           *)

\* device_vlans is about to call vlans() on the extractor object, whose
\* __enter__ fetched a configuration
VlansPolled ==
    /\ req = "device_vlans" /\ pc = "body" /\ my_device = "self"
    /\ IsDict(me["config"]) /\ HasKey(me["config"], "configuration")

\* the vlan elements of the fetched configuration, in configuration order
RawVlans ==
    LET config == me["config"]
        top == IF IsDict(config) /\ HasKey(config, "configuration")
               THEN Lookup(config, "configuration") ELSE PyNone
        vlans == IF IsDict(top) /\ HasKey(top, "vlans")
                 THEN Lookup(Lookup(top, "vlans"), "vlan") ELSE PyList(<<>>)
    IN  IF IsList(vlans) THEN vlans.v ELSE <<vlans>>

\* the record of a vlan element
VlanOf(vlan) ==
    PyDict(<< <<"id", Lookup(vlan, "vlan-id")>>,
              <<"name", Lookup(vlan, "name")>>,
              <<"description",
                IF HasKey(vlan, "description") THEN Lookup(vlan, "description")
                ELSE PyStr("")>>,
              <<"irb",
                IF HasKey(vlan, "l3-interface") THEN Lookup(vlan, "l3-interface")
                ELSE PyNone>> >>)

\* C16: for a fetched configuration of n VLANs, vlans() returns n records in
\* configuration order, each with id, name, description ("" without one) and
\* Layer-3 interface (null without one).
C16_OneRecordPerVlan ==
    VlansPolled =>
        /\ ~IsExc(Vlan_vlans(me))
        /\ JsonText(Vlan_vlans(me))
            = JsonText(PyDict(<< <<"vlans",
                                   PyList([i \in 1..Len(RawVlans) |->
                                              VlanOf(RawVlans[i])])>> >>))

----------------------------------------------------------------------------
(* Properties of the device records                                         *)

\* device_info is in its body with an extractor object whose __enter__
\* fetched a configuration
DevicePolled ==
    /\ req = "device_info" /\ pc = "body" /\ my_device = "self"
    /\ IsDict(me["config"]) /\ HasKey(me["config"], "configuration")

\* the elements under the path in the fetched configuration, in
\* configuration order: of a list, of a single map, or none
RECURSIVE ElementsAt(_, _)
ElementsAt(x, path) ==
    IF path = <<>> THEN (IF IsList(x) THEN x.v ELSE <<x>>)
    ELSE IF IsDict(x) /\ HasKey(x, Head(path))
    THEN ElementsAt(Lookup(x, Head(path)), Tail(path))
    ELSE <<>>

\* the record of a community element
CommunityOf(server) ==
    PyDict(<< <<"community", Lookup(server, "name")>>,
              <<"access",
                IF HasKey(server, "authorization") THEN Lookup(server, "authorization")
                ELSE PyStr("")>>,
              <<"clients",
                PyList([i \in 1..Len(ElementsAt(server, <<"clients">>)) |->
                           Lookup(ElementsAt(server, <<"clients">>)[i], "name")])>> >>)

RawCommunities == ElementsAt(me["config"], <<"configuration", "snmp", "community">>)

\* C17: for a configuration of n SNMP communities, snmp() returns n community
\* records in configuration order, each with its name, access level ("" without
\* one) and the list of its client addresses.
C17_OneRecordPerCommunity ==
    (DevicePolled /\ RawCommunities # <<>>) =>
        /\ ~IsExc(Device_snmp(me))
        /\ JsonText(Lookup(Lookup(Device_snmp(me), "snmp"), "communities"))
            = JsonText(PyList([i \in 1..Len(RawCommunities) |->
                                  CommunityOf(RawCommunities[i])]))

----------------------------------------------------------------------------
(* Properties of the hardware records                                       *)

\* the reply to get-system-storage is of several routing engines
MultiEngine == HasKey(me["storage"], "multi-routing-engine-results")

\* device_hardware is in its body with an extractor object whose __enter__
\* fetched a storage payload
StoragePolled ==
    /\ req = "device_hardware" /\ pc = "body" /\ my_device = "self"
    /\ IsDict(me["storage"])
    /\ HasKey(me["storage"], "system-storage-information") \/ MultiEngine

\* the record of a filesystem element
FilesystemOf(disk) ==
    PyDict(<< <<"disk", Lookup(disk, "filesystem-name")>>,
              <<"size", Lookup(Lookup(disk, "total-blocks"), "@format")>>,
              <<"used", Lookup(Lookup(disk, "used-blocks"), "@format")>> >>)

\* the disk entry of an engine: every filesystem of its storage element
DiskEntryOf(engine) ==
    LET filesystems == ElementsAt(engine, <<"system-storage-information", "filesystem">>)
    IN  PyDict(<< <<"filesystem",
                    PyList([i \in 1..Len(filesystems) |->
                               FilesystemOf(filesystems[i])])>> >>)

\* the engines of the storage payload: the items of a multi-engine reply, or
\* the reply itself
StorageEngines ==
    IF MultiEngine
    THEN ElementsAt(me["storage"],
                    <<"multi-routing-engine-results", "multi-routing-engine-item">>)
    ELSE <<me["storage"]>>

\* C18: disk() returns one disk entry per routing engine of a multi-engine
\* reply, and one entry for a single-engine reply, each listing every
\* filesystem of its engine.
C18_DiskEntryPerEngine ==
    StoragePolled =>
        /\ ~IsExc(Hardware_disk(me))
        /\ JsonText(Hardware_disk(me))
            = JsonText(PyDict(<< <<"disk",
                                   PyList([i \in 1..Len(StorageEngines) |->
                                              DiskEntryOf(StorageEngines[i])])>> >>))

----------------------------------------------------------------------------
(* Properties of the uptime                                                 *)

\* the seconds of one unit of time, by the word the uptime string has for it
SecondsOf(unit) ==
    CASE unit \in {"day", "days"} -> 86400
      [] unit \in {"hour", "hours"} -> 3600
      [] unit \in {"minute", "minutes"} -> 60
      [] unit \in {"second", "seconds"} -> 1
      [] OTHER -> 0

\* the seconds of the components "<number> <unit>" of an uptime string
RECURSIVE SumSeconds(_)
SumSeconds(items) ==
    IF items = <<>> THEN 0
    ELSE LET words == Split(Head(items), " ")
         IN  (IF Len(words) = 2 /\ IsDigits(words[1])
              THEN NatOf(words[1]) * SecondsOf(words[2]) ELSE 0)
             + SumSeconds(Tail(items))

\* the uptime string of the master routing engine: the first engine of the
\* facts that reports one
MasterUpTime ==
    IF ~IsNone(Lookup(dev_facts, "RE0")) THEN Lookup(Lookup(dev_facts, "RE0"), "up_time").v
    ELSE Lookup(Lookup(dev_facts, "RE1"), "up_time").v

\* device_info is in its body with the extractor object of a session whose
\* block ran to its end
UptimePolled ==
    /\ req = "device_info" /\ pc = "body" /\ my_device = "self"
    /\ dev # "none"

\* C19: the uptime fact is days*86400 + hours*3600 + minutes*60 + seconds of
\* the components the master engine's uptime string has, a component it does
\* not have counting as zero.
C19_UptimeIsWeightedSum ==
    UptimePolled =>
        me["uptime"] = PyInt(SumSeconds(Split(MasterUpTime, ", ")))

\* the entries of configuration.system.radius-server
RawRadius ==
    ElementsAt(me["config"], <<"configuration", "system", "radius-server">>)

\* the value of an optional field of a server entry, or its default
FieldOr(server, key, default) ==
    IF HasKey(server, key) THEN Lookup(server, key) ELSE default

\* the record a server entry is to give
RadiusOf(server) ==
    PyDict(<< <<"server", Lookup(server, "name")>>,
              <<"port", Lookup(server, "port")>>,
              <<"acc_port", FieldOr(server, "accounting-port", PyInt(1813))>>,
              <<"timeout", FieldOr(server, "timeout", PyInt(5))>>,
              <<"retry", FieldOr(server, "retry", PyInt(3))>>,
              <<"source", FieldOr(server, "source-address", PyStr(""))>> >>)

\* C20: every RADIUS server entry gives a record whose accounting port,
\* timeout, retry count and source address are the entry's values where it has
\* them and 1813, 5, 3 and "" where it has not, and whose server name and
\* port are the entry's own.
C20_RadiusDefaults ==
    (DevicePolled /\ RawRadius # <<>>) =>
        /\ ~IsExc(Device_radius(me))
        /\ JsonText(Device_radius(me))
             = JsonText(PyDict(<< <<"radius-servers",
                    PyList([i \in 1..Len(RawRadius) |-> RadiusOf(RawRadius[i])])>> >>))

\* a configuration with one server that has all four optional fields and one
\* that has none of them
C20_Witness ==
    /\ DevicePolled
    /\ Len(RawRadius) = 2
    /\ HasKey(RawRadius[1], "accounting-port") /\ HasKey(RawRadius[1], "timeout")
    /\ HasKey(RawRadius[1], "retry") /\ HasKey(RawRadius[1], "source-address")
    /\ ~HasKey(RawRadius[2], "accounting-port") /\ ~HasKey(RawRadius[2], "timeout")
    /\ ~HasKey(RawRadius[2], "retry") /\ ~HasKey(RawRadius[2], "source-address")
    /\ Lookup(Lookup(Device_radius(me), "radius-servers").v[2], "acc_port") = PyInt(1813)

-----------------------------------------------------------------------------
(* The routing table *)

\* device_routing is in its body with the extractor object of a session that
\* fetched a route-information reply
RoutingPolled ==
    /\ req = "device_routing" /\ pc = "body" /\ my_device = "self"
    /\ IsDict(me["routing"]) /\ HasKey(me["routing"], "route-information")

\* the route tables of the reply
RawTables == ElementsAt(me["routing"], <<"route-information", "route-table">>)

\* the positions of the tables named inet.0
Inet0Positions ==
    {i \in 1..Len(RawTables) : Lookup(RawTables[i], "table-name") = PyStr("inet.0")}

\* the reply has an inet.0 table whose routes are a list
RoutesListed ==
    /\ Inet0Positions # {}
    /\ LET table == RawTables[CHOOSE i \in Inet0Positions : \A j \in Inet0Positions : i <= j]
       IN  HasKey(table, "rt") /\ IsList(Lookup(table, "rt"))

\* the routes of the first inet.0 table
RawRoutes ==
    Lookup(RawTables[CHOOSE i \in Inet0Positions : \A j \in Inet0Positions : i <= j],
           "rt").v

\* every rt-entry of the routes with its destination, in reply order
RECURSIVE EntriesOf(_)
EntriesOf(rts) ==
    IF rts = <<>> THEN <<>>
    ELSE LET es == ElementsAt(Head(rts), <<"rt-entry">>)
         IN  [i \in 1..Len(es) |->
                 [destination |-> Lookup(Head(rts), "rt-destination"), entry |-> es[i]]]
             \o EntriesOf(Tail(rts))

\* the entries that are not internal routes
Reported ==
    SelectSeq(EntriesOf(RawRoutes),
              LAMBDA e : Lookup(e.entry, "protocol-name") # PyStr("Access-internal"))

\* the records routing_table() returns, none when it raises
RouteRecordsOf(self) ==
    LET r == Routing_routing_table(self)
    IN  IF IsExc(r) THEN <<>> ELSE Lookup(r, "entry").v

\* the metric an rt-entry is to have
MetricOf(entry) ==
    LET protocol == Lookup(entry, "protocol-name").v
    IN  IF protocol \in {"Direct", "Local"} THEN PyInt(0)
        ELSE IF protocol = "Static" /\ ~HasKey(entry, "metric") THEN PyInt(1)
        ELSE IF protocol = "Static" THEN PyInt(NatOf(Lookup(entry, "metric").v))
        ELSE Lookup(entry, "metric")

\* C21: a Direct or Local entry has metric 0 with or without a raw metric, a
\* Static entry without a raw metric has metric 1, a Static entry with the raw
\* metric "50" has the number 50, and any other entry has the metric of the
\* reply.
C21_RouteMetricPolicy ==
    (RoutingPolled /\ RoutesListed) =>
        /\ Len(RouteRecordsOf(me)) = Len(Reported)
        /\ \A i \in 1..Len(Reported) :
              JsonText(Lookup(RouteRecordsOf(me)[i], "metric"))
                  = JsonText(MetricOf(Reported[i].entry))

-----------------------------------------------------------------------------
(* The MAC address table *)

\* device_mac is in its body with the extractor object of a session that
\* fetched a reply
MacPolled ==
    /\ req = "device_mac" /\ pc = "body" /\ my_device = "self"
    /\ IsDict(me["mac_table"])

\* the reply is in the legacy schema
LegacyShaped ==
    /\ HasKey(me["mac_table"], "ethernet-switching-table-information")
    /\ ~HasKey(me["mac_table"], "l2ng-l2ald-rtb-macdb")

\* the entry of the current schema that describes a legacy entry
CurrentEntryOf(entry) ==
    PyDict(<< <<"l2ng-l2-mac-address", Lookup(entry, "mac-address")>>,
              <<"l2ng-l2-mac-vlan-name", Lookup(entry, "mac-vlan")>>,
              <<"l2ng-l2-mac-logical-interface",
                Lookup(Lookup(entry, "mac-interfaces-list"), "mac-interfaces")>> >>)

\* the reply of the current schema that describes the entries of a legacy
\* reply, a list for a list and a single map for a single map
CurrentOf(table) ==
    LET x == Lookup(Lookup(Lookup(table, "ethernet-switching-table-information"),
                           "ethernet-switching-table"), "mac-table-entry")
    IN  PyDict(<< <<"l2ng-l2ald-rtb-macdb",
            PyDict(<< <<"l2ng-l2ald-mac-entry-vlan",
                PyDict(<< <<"l2ng-mac-entry",
                    IF IsList(x)
                    THEN PyList([i \in 1..Len(x.v) |-> CurrentEntryOf(x.v[i])])
                    ELSE CurrentEntryOf(x)>> >>)>> >>)>> >>)

\* the records mac() returns, none when it raises
MacRecordsOf(self) ==
    LET r == Mac_mac(self)
    IN  IF IsExc(r) THEN <<>> ELSE Lookup(r, "entry").v

\* C23: a legacy reply and the current reply that describes the same entries
\* give the same outcome of mac(), and every record of either has exactly the
\* keys mac, vlan and interface.
C23_LegacyAndCurrentAgree ==
    MacPolled =>
        /\ LegacyShaped =>
              Same(Mac_mac(me), Mac_mac([me EXCEPT !["mac_table"] = CurrentOf(@)]))
        /\ \A i \in 1..Len(MacRecordsOf(me)) :
              Keys(MacRecordsOf(me)[i]) = <<"mac", "vlan", "interface">>

\* a legacy reply of two entries, returned as two records
C23_Witness ==
    /\ MacPolled /\ LegacyShaped
    /\ Len(MacRecordsOf(me)) = 2
    /\ Len(MacRecordsOf([me EXCEPT !["mac_table"] = CurrentOf(@)])) = 2

\* the reply has the top-level key of neither schema and is not the result of
\* a failed call
Unrecognised ==
    /\ ~HasKey(me["mac_table"], "l2ng-l2ald-rtb-macdb")
    /\ ~HasKey(me["mac_table"], "ethernet-switching-table-information")
    /\ ~IsErrorResult(me["mac_table"])

\* C24: a reply in neither schema makes mac() fail; no successful result, empty
\* or defaulted, is returned for it.
C24_UnrecognisedIsFailure ==
    (MacPolled /\ Unrecognised) => IsExc(Mac_mac(me))

-----------------------------------------------------------------------------
(* Licences *)

\* device_info is in its body with the extractor object of a session that
\* fetched a license-information reply
LicensePolled ==
    /\ req = "device_info" /\ pc = "body" /\ my_device = "self"
    /\ IsDict(me["raw_license"]) /\ HasKey(me["raw_license"], "license-information")

\* the installed licences of the reply and the features of one of them
RawLicenses == ElementsAt(me["raw_license"], <<"license-information", "license">>)
FeaturesOf(licence) == ElementsAt(licence, <<"feature-block", "feature">>)

\* every feature of the licence has an end date
Dated(licence) ==
    \A i \in 1..Len(FeaturesOf(licence)) :
        /\ HasKey(FeaturesOf(licence)[i], "validity-information")
        /\ HasKey(Lookup(FeaturesOf(licence)[i], "validity-information"), "end-date")

\* the end date of a feature
EndDateOf(feature) ==
    Lookup(Lookup(Lookup(feature, "validity-information"), "end-date"), "#text")

\* the entries license() returns, none when it raises
LicenceEntriesOf(self) ==
    LET r == Device_license(self)
    IN  IF IsExc(r) THEN <<>> ELSE Lookup(r, "licenses").v

-----------------------------------------------------------------------------
(* Syslog servers *)

\* the host elements of the syslog configuration
RawSyslogHosts ==
    ElementsAt(me["config"], <<"configuration", "system", "syslog", "host">>)

\* the records syslog() returns, none when it raises
SyslogRecordsOf(self) ==
    LET r == Device_syslog(self)
    IN  IF IsExc(r) THEN <<>> ELSE Lookup(r, "syslog-servers").v

\* C26: the syslog records have one shape whether the contents element of the
\* host is a single map or a list: one record per host, the level a single
\* level value and the facility a single facility name in both cases.
C26_SyslogRecordShape ==
    (DevicePolled /\ RawSyslogHosts # <<>>) =>
        /\ Len(SyslogRecordsOf(me)) = Len(RawSyslogHosts)
        /\ \A i \in 1..Len(SyslogRecordsOf(me)) :
              /\ Lookup(SyslogRecordsOf(me)[i], "level").t = "str"
              /\ Lookup(SyslogRecordsOf(me)[i], "facilities").t = "str"

-----------------------------------------------------------------------------
(* Complete records *)

\* the set of the keys of a record
KeySet(d) == {Keys(d)[i] : i \in 1..Len(Keys(d))}

\* every route record has the keys of a route, the next-hop list included
RoutesComplete ==
    (RoutingPolled /\ RoutesListed) =>
        \A i \in 1..Len(RouteRecordsOf(me)) :
            KeySet(RouteRecordsOf(me)[i]) = {"protocol", "route", "metric", "next_hop"}

\* the SNMP record has its four keys, also without SNMP configuration
SnmpComplete ==
    DevicePolled =>
        LET r == Device_snmp(me)
        IN  ~IsExc(r) =>
                KeySet(Lookup(r, "snmp")) = {"communities", "name", "contact", "description"}

\* every licence entry has its three keys, the entry for no licence included
LicencesComplete ==
    LicensePolled =>
        \A i \in 1..Len(LicenceEntriesOf(me)) :
            KeySet(LicenceEntriesOf(me)[i]) = {"lic_id", "name", "expiry"}

\* C27: every record an extractor returns has all the keys of its record
\* type, whichever optional elements the reply had: a route without next hops
\* has a next-hop list, the SNMP record has name, contact and description
\* without SNMP configuration, and the entry for no licence has the keys of
\* the entry of an installed licence.
C27_RecordsComplete ==
    RoutesComplete /\ SnmpComplete /\ LicencesComplete

-----------------------------------------------------------------------------
(* Extractor calls *)

\* every pair of a result is in the dictionary d as the call returned it
MergedIn(d, r) ==
    \A i \in 1..Len(r.v) :
        /\ HasKey(d, r.v[i][1])
        /\ JsonText(Lookup(d, r.v[i][1])) = JsonText(r.v[i][2])

-----------------------------------------------------------------------------
(* Fetches and extractor calls *)

\* C29: every fetch of a request is issued in the block of the scoped
\* session, on its open handle, before any extractor method runs; when an
\* extractor method runs the session has been left, and no extractor call
\* issues a fetch or touches the handle. (The step that takes the next request
\* starts a new log.)
C29_FetchesBeforeExtractors ==
    [][ pc # "idle" =>
          /\ log' # log => (pc = "fetch" /\ dev = "open" /\ ran = <<>> /\ ran' = <<>>)
          /\ ran' # ran =>
                /\ pc = "body" /\ dev \in {"none", "closed"}
                /\ log' = log /\ dev' = dev ]_vars

\* an extractor method has run on the payloads of two fetches of a session
\* that is closed
C29_Witness ==
    /\ pc = "body" /\ my_device = "self" /\ dev = "closed"
    /\ Len(log) >= 2 /\ ran # <<>>

-----------------------------------------------------------------------------
(* The LLDP fallback *)

\* the block of Lldp.__enter__ has run on an open session
LldpFetched ==
    /\ req = "device_lldp" /\ pc \in {"exit", "body", "done"} /\ dev # "none"

\* the call of the plain form is in the log
PlainIssued ==
    \E i \in 1..Len(log) :
        log[i] = [op |-> "rpc", arg |-> "get-lldp-neighbors-information"]

\* C30: the detail call is the first call of the block; when it fails on the
\* device, so that no reply of it can be stored, the plain call
\* get-lldp-neighbors-information is issued after it.
C30_LldpFallback ==
    LldpFetched =>
        /\ log # <<>>
        /\ log[1] = [op |-> "rpc", arg |-> "get-lldp-neighbor-detail-information"]
        /\ (Len(log) = 1 => ~IsErrorResult(me["lldp_interface"]))
        /\ (Len(log) > 1 => (Len(log) = 2 /\ PlainIssued))

====
